---- MODULE Spec2Model ----
(***************************************************************************)
(* A model of ggpkviewer: the bundle codec, the bundle-index path          *)
(* expander, the `it` parser and merger, the PoeFS facade with its four    *)
(* caches, the local and online sources, the `dat` row decoder and the     *)
(* translation decoder.  Byte strings are sequences of naturals below 256; *)
(* text is a sequence of UTF-16 units.                                     *)
(***************************************************************************)
EXTENDS Integers, Sequences, FiniteSets, TLC

VARIABLES
    store,              \* the source adapter's files: bundle name -> bundle file
    srcStatus,          \* what the source adapter currently answers
    bundle_index,       \* PoeFS.bundle_index  (bundles, files)
    paths,              \* PoeFS.paths         path -> hash
    file_map,           \* PoeFS.file_map      hash -> index into files
    dat_cache,          \* PoeFS.dat_cache
    txt_cache,          \* PoeFS.txt_cache
    it_cache,           \* PoeFS.it_cache
    it_recursive_cache, \* PoeFS.it_recursive_cache
    alive,              \* FALSE once a call has panicked or exhausted the stack
    last,               \* the last PoeFS call: operation, path, result, adapter calls
    pf_in,              \* argument of the pure function under check
    pf_out              \* its result

fsVars == <<store, srcStatus, bundle_index, paths, file_map, dat_cache, txt_cache,
            it_cache, it_recursive_cache, alive, last>>
pfVars == <<pf_in, pf_out>>
vars == <<store, srcStatus, bundle_index, paths, file_map, dat_cache, txt_cache,
          it_cache, it_recursive_cache, alive, last, pf_in, pf_out>>

(***************************************************************************)
(* Bounds of the model.                                                    *)
(***************************************************************************)
\* longest bundle payload the bundle-codec specification draws
MaxPayload == 5
\* largest block granularity the bundle-codec specification draws
MaxGranularity == 3

(***************************************************************************)
(* Results: Ok(v), Err(e) (a returned error), Panic(e) (an unwrap or an    *)
(* index out of range: the thread unwinds).                                *)
(***************************************************************************)
Ok(v) == [kind |-> "Ok", err |-> "", val |-> v]
Err(e) == [kind |-> "Err", err |-> e, val |-> <<>>]
Panic(e) == [kind |-> "Panic", err |-> e, val |-> <<>>]
NoResult == [kind |-> "None", err |-> "", val |-> <<>>]

Min(a, b) == IF a < b THEN a ELSE b

\* overflow checks on (debug) or off (release)
Builds == {"debug", "release"}

\* F(x), with x evaluated once whatever the number of its uses in F
Bind(x, F(_)) == CHOOSE y \in {F(v) : v \in {x}} : TRUE

RECURSIVE SumSeq(_)
SumSeq(s) == IF s = <<>> THEN 0 ELSE Head(s) + SumSeq(Tail(s))

\* s[from .. to), 0-based, as Rust's &s[from..to]
Slice(s, from, to) == SubSeq(s, from + 1, to)

(***************************************************************************)
(* Block codec (oozle::decompress), opaque.  A compressed block is the     *)
(* magic byte followed by the plain bytes.  Decoding into a buffer of the  *)
(* block's plain length yields the plain bytes; what the decoder does with *)
(* a shorter buffer is not fixed by this repository, so `oz` chooses       *)
(* between its refusing the block and its filling the buffer.              *)
(***************************************************************************)
KrakenMagic == <<140>>

OodleCompress(plain) == KrakenMagic \o plain

OodleDecompress(block, size, oz) ==
    LET plain == Tail(block) IN
    IF block = <<>> \/ <<Head(block)>> # KrakenMagic THEN Err("CodecError")
    ELSE IF size = Len(plain) THEN Ok(plain)
    ELSE IF size < Len(plain) /\ oz = "fill" THEN Ok(SubSeq(plain, 1, size))
    ELSE Err("CodecError")

(***************************************************************************)
(* Bundle codec.  A header keeps the fields Bundle::data reads.            *)
(***************************************************************************)
\* bundle.rs:31-35  the compressed blocks cut out of data_input
RECURSIVE SplitBlocks(_, _, _)
SplitBlocks(data_input, block_sizes, offset) ==
    IF block_sizes = <<>> THEN <<>>
    ELSE <<Slice(data_input, offset, offset + Head(block_sizes))>>
         \o SplitBlocks(data_input, Tail(block_sizes), offset + Head(block_sizes))

\* bundle.rs:38-44  the size of the output buffer of block `index` of `n`
BlockOutputSize(head, index, n) ==
    IF index # n - 1
    THEN head.uncompressed_block_granularity
    ELSE head.uncompressed_size % head.uncompressed_block_granularity

\* bundle.rs:37-48  decompress blocks index.. and append them to `acc`
RECURSIVE DecompressBlocks(_, _, _, _, _)
DecompressBlocks(head, blocks, index, acc, oz) ==
    IF index = Len(blocks) THEN Ok(acc)
    ELSE LET size == BlockOutputSize(head, index, Len(blocks))
         IN  Bind(OodleDecompress(blocks[index + 1], size, oz), LAMBDA out :
                 IF out.kind # "Ok" THEN Panic("decompress unwrap")
                 ELSE DecompressBlocks(head, blocks, index + 1, acc \o out.val, oz))

\* bundle.rs:27-50  Bundle::data on the bytes left in the reader
BundleData(head, reader, oz) ==
    IF Len(reader) < head.total_payload_size THEN Err("UnexpectedEof")
    ELSE IF SumSeq(head.block_sizes) > head.total_payload_size
         THEN Panic("slice index out of range")
    ELSE IF head.block_sizes # <<>> /\ head.uncompressed_block_granularity = 0
         THEN Panic("remainder by zero")
    ELSE LET data_input == SubSeq(reader, 1, head.total_payload_size)
             blocks == SplitBlocks(data_input, head.block_sizes, 0)
         IN  DecompressBlocks(head, blocks, 0, <<>>, oz)

(***************************************************************************)
(* Building a bundle file from a payload: the encoder the round-trip law   *)
(* of the specification assumes (blocks of `gran` plain bytes, the last    *)
(* one holding what is left).                                              *)
(***************************************************************************)
BlockCount(n, gran) == (n + gran - 1) \div gran

PlainBlock(payload, gran, i) ==
    Slice(payload, i * gran, Min((i + 1) * gran, Len(payload)))

MakeBundle(payload, gran) ==
    LET n == BlockCount(Len(payload), gran)
        comp == [i \in 1..n |-> OodleCompress(PlainBlock(payload, gran, i - 1))]
        sizes == [i \in 1..n |-> Len(comp[i])]
        RECURSIVE Cat(_)
        Cat(i) == IF i > n THEN <<>> ELSE comp[i] \o Cat(i + 1)
    IN  [head |-> [uncompressed_size |-> Len(payload),
                   total_payload_size |-> SumSeq(sizes),
                   block_count |-> n,
                   uncompressed_block_granularity |-> gran,
                   block_sizes |-> sizes],
         payload |-> Cat(1)]

(***************************************************************************)
(* Idle values of the variables a specification does not use.              *)
(***************************************************************************)
NoCall == [op |-> "none", path |-> "", res |-> NoResult, calls |-> <<>>, hit |-> FALSE]

FsIdle ==
    /\ store = <<>>
    /\ srcStatus = "ok"
    /\ bundle_index = <<>>
    /\ paths = <<>>
    /\ file_map = <<>>
    /\ dat_cache = <<>>
    /\ txt_cache = <<>>
    /\ it_cache = <<>>
    /\ it_recursive_cache = <<>>
    /\ alive = TRUE
    /\ last = NoCall

(***************************************************************************)
(* SpecBundle: Bundle::data applied to every well-formed bundle file with  *)
(* a payload of at most MaxPayload bytes.                                  *)
(***************************************************************************)
PayloadBytes == {7, 9}

RECURSIVE SeqsUpTo(_, _)
SeqsUpTo(S, n) ==
    IF n = 0 THEN {<<>>}
    ELSE LET shorter == SeqsUpTo(S, n - 1)
         IN  shorter \cup {Append(s, x) : s \in {t \in shorter : Len(t) = n - 1}, x \in S}

InitBundle ==
    /\ FsIdle
    /\ \E payload \in SeqsUpTo(PayloadBytes, MaxPayload), gran \in 1..MaxGranularity :
          pf_in = [fn |-> "Bundle::data", plain |-> payload,
                   bundle |-> MakeBundle(payload, gran)]
    /\ pf_out = NoResult

BundleDataCall ==
    /\ pf_in.fn = "Bundle::data"
    /\ pf_out = NoResult
    /\ \E oz \in {"fill", "refuse"} :
          pf_out' = BundleData(pf_in.bundle.head, pf_in.bundle.payload, oz)
    /\ UNCHANGED <<pf_in, store, srcStatus, bundle_index, paths, file_map, dat_cache,
                   txt_cache, it_cache, it_recursive_cache, alive, last>>

NextBundle == BundleDataCall

SpecBundle == InitBundle /\ [][NextBundle]_vars

\* C3: Bundle.data returns a buffer of exactly uncompressed_size_64 bytes for
\* every header with block_count >= 1 (a remainder of 0 meaning a full last block).
C3_DataLengthIsUncompressedSize ==
    (pf_in.fn = "Bundle::data" /\ pf_out # NoResult /\ pf_in.bundle.head.block_count >= 1)
        => /\ pf_out.kind = "Ok"
           /\ Len(pf_out.val) = pf_in.bundle.head.uncompressed_size

(***************************************************************************)
(* Path expander (make_paths).  Strings are sequences of bytes; every byte *)
(* of the model is below 128, so String::from_utf8 never fails.            *)
(***************************************************************************)
\* read_u32::<LittleEndian> at 0-based position pos
U32LE(bytes, pos) ==
    bytes[pos + 1] + 256 * bytes[pos + 2] + 65536 * bytes[pos + 3]
        + 16777216 * bytes[pos + 4]

\* poefs/mod.rs:208  read_until(0, buf): the bytes from pos up to and including
\* the first NUL, or up to the end of the input when there is none
RECURSIVE ReadUntilNul(_, _)
ReadUntilNul(bytes, pos) ==
    IF pos >= Len(bytes) THEN <<>>
    ELSE IF bytes[pos + 1] = 0 THEN <<0>>
    ELSE <<bytes[pos + 1]>> \o ReadUntilNul(bytes, pos + 1)

\* poefs/mod.rs:211  trim_end_matches('\0')
RECURSIVE TrimEndNul(_)
TrimEndNul(s) ==
    IF s # <<>> /\ s[Len(s)] = 0 THEN TrimEndNul(SubSeq(s, 1, Len(s) - 1)) ELSE s

\* a prefix lookup that forgets the index is 1-based on the wire
PrefixedNoDecrement(temp, index, string) ==
    IF index + 1 < Len(temp) THEN temp[index + 2] \o string ELSE string

\* poefs/mod.rs:213-215  temp.get(index).map_or_else(string, prefix + string),
\* index being the wire index already decremented by one
Prefixed(temp, index, string) ==
    IF index < Len(temp) THEN temp[index + 1] \o string ELSE string

\* poefs/mod.rs:195-222  the loop of make_paths from position pos, once the
\* bound len - 4 has been computed without wrapping
RECURSIVE MakePathsLoop(_, _, _, _, _)
MakePathsLoop(bytes, pos, base, temp, out) ==
    IF ~(pos < Len(bytes) - 4) THEN Ok(out)
    ELSE LET index == U32LE(bytes, pos) IN
         IF index = 0
         THEN MakePathsLoop(bytes, pos + 4, ~base, IF ~base THEN <<>> ELSE temp, out)
         ELSE LET buf == ReadUntilNul(bytes, pos + 4)
                  string == Prefixed(temp, index - 1, TrimEndNul(buf))
              IN  IF base
                  THEN MakePathsLoop(bytes, pos + 4 + Len(buf), base,
                                     Append(temp, string), out)
                  ELSE MakePathsLoop(bytes, pos + 4 + Len(buf), base, temp,
                                     Append(out, string))

\* poefs/mod.rs:190-224  make_paths.  `len() - 4` is a usize subtraction: on an
\* input shorter than 4 bytes it panics when overflow checks are compiled in
\* (build = "debug") and wraps to a huge bound otherwise (build = "release"),
\* where the first read_u32 then fails at the end of the input.
MakePaths(bytes, build) ==
    IF Len(bytes) < 4
    THEN IF build = "debug" THEN Panic("attempt to subtract with overflow")
         ELSE Err("UnexpectedEof")
    ELSE MakePathsLoop(bytes, 0, FALSE, <<>>, <<>>)

(***************************************************************************)
(* SpecPaths: make_paths applied to payloads built from at most MaxTokens  *)
(* tokens, and to the two payloads of the specification's fifth scenario.  *)
(***************************************************************************)
MaxTokens == 6

PathTokens == {<<0, 0, 0, 0>>, <<1, 0, 0, 0>>, <<2, 0, 0, 0>>, <<97, 0>>, <<98>>}

\* "/Bundles2/" and "a" in ASCII
StrBundles2 == <<47, 66, 117, 110, 100, 108, 101, 115, 50, 47>>
StrA == <<97>>

\* [0,0,0,0, "/Bundles2/" 00, 0,0,0,0, 1,0,0,0, "a" 00]
Scenario5 == <<0, 0, 0, 0>> \o StrBundles2 \o <<0>> \o <<0, 0, 0, 0>>
                 \o <<1, 0, 0, 0>> \o StrA \o <<0>>
\* the same with the dictionary entry given its index: [0,0,0,0, 1,0,0,0, "/Bundles2/" 00, ...]
Scenario5Indexed == <<0, 0, 0, 0>> \o <<1, 0, 0, 0>> \o StrBundles2 \o <<0>>
                        \o <<0, 0, 0, 0>> \o <<1, 0, 0, 0>> \o StrA \o <<0>>

RECURSIVE TokenPayloads(_)
TokenPayloads(n) ==
    IF n = 0 THEN {<<>>}
    ELSE LET shorter == TokenPayloads(n - 1)
         IN  shorter \cup {p \o t : p \in shorter, t \in PathTokens}

InitPaths ==
    /\ FsIdle
    /\ \E bytes \in TokenPayloads(MaxTokens) \cup {Scenario5, Scenario5Indexed},
          build \in Builds :
          pf_in = [fn |-> "make_paths", bytes |-> bytes, build |-> build]
    /\ pf_out = NoResult

MakePathsCall ==
    /\ pf_in.fn = "make_paths"
    /\ pf_out = NoResult
    /\ pf_out' = MakePaths(pf_in.bytes, pf_in.build)
    /\ UNCHANGED <<pf_in, store, srcStatus, bundle_index, paths, file_map, dat_cache,
                   txt_cache, it_cache, it_recursive_cache, alive, last>>

NextPaths == MakePathsCall

SpecPaths == InitPaths /\ [][NextPaths]_vars

\* The reference state machine of the path decoder: base = false, temp = [],
\* paths = []; while more than 4 bytes remain read a u32 index; 0 toggles base
\* (clearing temp on false -> true); otherwise read a fragment up to its NUL and
\* prefix it with temp[index - 1] when that entry exists; append the string to
\* temp when base holds, else to paths.
RECURSIVE RefPaths(_, _, _, _, _)
RefPaths(bytes, pos, base, temp, out) ==
    IF Len(bytes) - pos <= 4 THEN out
    ELSE LET index == U32LE(bytes, pos) IN
         IF index = 0
         THEN RefPaths(bytes, pos + 4, ~base, IF base THEN temp ELSE <<>>, out)
         ELSE LET raw == ReadUntilNul(bytes, pos + 4)
                  frag == IF raw # <<>> /\ raw[Len(raw)] = 0
                          THEN SubSeq(raw, 1, Len(raw) - 1) ELSE raw
                  s == IF index - 1 < Len(temp) THEN temp[index] \o frag ELSE frag
              IN  RefPaths(bytes, pos + 4 + Len(raw), base,
                           IF base THEN Append(temp, s) ELSE temp,
                           IF base THEN out ELSE Append(out, s))

MakePathsDone == pf_in.fn = "make_paths" /\ pf_out # NoResult

\* C9: for every path-rep payload, payloads of 4 bytes or fewer included,
\* make_paths returns exactly the list of the reference state machine.
C9_MakePathsIsReference ==
    MakePathsDone => pf_out = Ok(RefPaths(pf_in.bytes, 0, FALSE, <<>>, <<>>))

\* make_paths agrees with the reference machine on every payload of at least
\* 4 bytes (what is left of C9 once the short payloads are set aside).
MakePathsIsReferenceFrom4 ==
    (MakePathsDone /\ Len(pf_in.bytes) >= 4)
        => pf_out = Ok(RefPaths(pf_in.bytes, 0, FALSE, <<>>, <<>>))

\* C10 as stated: the payload of scenario 5 expands to the single path /Bundles2/a.
C10_Scenario5EmitsBundles2A ==
    (MakePathsDone /\ pf_in.bytes = Scenario5) => pf_out = Ok(<<StrBundles2 \o StrA>>)

\* C10 amended: the payload of scenario 5 expands to the single path "dles2/a"
\* (the bytes "/Bun" are read as the index of the dictionary entry), and the
\* payload whose dictionary entry carries the index 1 expands to /Bundles2/a.
C10_Scenario5EmitsDles2A ==
    /\ (MakePathsDone /\ pf_in.bytes = Scenario5)
           => pf_out = Ok(<<<<100, 108, 101, 115, 50, 47, 97>>>>)
    /\ (MakePathsDone /\ pf_in.bytes = Scenario5Indexed)
           => pf_out = Ok(<<StrBundles2 \o StrA>>)

\* scenario 5 has been expanded
C10_Witness == MakePathsDone /\ pf_in.bytes = Scenario5 /\ pf_out.kind = "Ok"

(***************************************************************************)
(* `it` files.  The text of a file is a sequence of UTF-16 units; the      *)
(* model's texts are written with one unit per lexical element: 0xFEFF is  *)
(* the byte-order mark, a unit of HeaderUnits is a header                  *)
(* `version 2 extends "<name>"`, a unit of SectionUnits opens the section  *)
(* block of that name, and a unit of KeyValueUnits is a line `key = value` *)
(* of the section that is open.  Every other unit matches no pattern.      *)
(***************************************************************************)
BomUnit == 65279

HeaderUnits == (1 :> "nothing") @@ (2 :> "A") @@ (3 :> "B") @@ (4 :> "C") @@ (5 :> "Z")

SectionUnits == (11 :> "Base") @@ (12 :> "Stats")

KeyValueUnits ==
    (21 :> [key |-> "tag", value |-> "a"]) @@ (22 :> [key |-> "tag", value |-> "b"])
    @@ (23 :> [key |-> "hp", value |-> "1"]) @@ (24 :> [key |-> "hp", value |-> "2"])
    @@ (25 :> [key |-> "tag", value |-> "c"]) @@ (26 :> [key |-> "str", value |-> "x"])

\* str::parse::<i32> on the values the texts use
ParseI32 == ("1" :> 1) @@ ("2" :> 2)

Number(n) == [t |-> "Number", n |-> n, s |-> "", set |-> {}]
String(s) == [t |-> "String", n |-> 0, s |-> s, set |-> {}]
SetOf(S) == [t |-> "Set", n |-> 0, s |-> "", set |-> S]

\* it.rs:117-123  ITValue::new
ITValueNew(string) ==
    IF string \in DOMAIN ParseI32 THEN Number(ParseI32[string]) ELSE String(string)

\* it.rs:125-127  ITValue::new_list
ITValueNewList(string) == SetOf({ITValueNew(string)})

\* HashMap::insert
MapInsert(m, k, v) == [x \in DOMAIN m \cup {k} |-> IF x = k THEN v ELSE m[x]]

\* it.rs:37  trim_start_matches('\u{feff}')
RECURSIVE TrimStartBom(_)
TrimStartBom(file) ==
    IF file # <<>> /\ Head(file) = BomUnit THEN TrimStartBom(Tail(file)) ELSE file

\* a parse that stores every key named tag as a Set
ParsedValueAnyTag(section_key, key, value) ==
    IF key = "tag" THEN ITValueNewList(value) ELSE ITValueNew(value)

\* it.rs:57-62  the value a key of a section is stored with
ParsedValue(section_key, key, value) ==
    IF section_key = "Base" /\ key = "tag" THEN ITValueNewList(value) ELSE ITValueNew(value)

\* it.rs:44-66  the sections of the text from unit i on; `open` is the name of
\* the section block being read ("" outside a block), `section_map` its keys
RECURSIVE ParseSections(_, _, _, _, _)
ParseSections(file, i, open, section_map, sections) ==
    LET closed == IF open = "" THEN sections ELSE MapInsert(sections, open, section_map)
    IN  IF i > Len(file) THEN closed
        ELSE IF file[i] \in DOMAIN SectionUnits
             THEN ParseSections(file, i + 1, SectionUnits[file[i]], <<>>, closed)
        ELSE IF file[i] \in DOMAIN KeyValueUnits /\ open # ""
             THEN LET kv == KeyValueUnits[file[i]]
                  IN  ParseSections(file, i + 1, open,
                          MapInsert(section_map, kv.key,
                                    ParsedValue(open, kv.key, kv.value)),
                          sections)
        ELSE ParseSections(file, i + 1, open, section_map, sections)

\* it.rs:36-74  ITFile::parse; the header regex is unwrapped
ITFileParse(text) ==
    LET file == TrimStartBom(text)
        headers == {i \in 1..Len(file) : file[i] \in DOMAIN HeaderUnits}
    IN  IF headers = {} THEN Panic("header unwrap")
        ELSE LET first == CHOOSE i \in headers : \A j \in headers : i <= j
             IN  Ok([version |-> 2, aabstract |-> FALSE,
                     extends |-> HeaderUnits[file[first]],
                     sections |-> ParseSections(file, 1, "", <<>>, <<>>)])

\* a merge of values in which the parent's set is not added
MergeValueKeepSelf(existing_value, value) == existing_value

\* it.rs:89-94  both sets: extend self's; otherwise self's value stays
MergeValue(existing_value, value) ==
    IF existing_value.t = "Set" /\ value.t = "Set"
    THEN SetOf(existing_value.set \cup value.set)
    ELSE existing_value

\* it.rs:87-98  the keys of a section of `other` merged into self's section
RECURSIVE MergeSection(_, _, _)
MergeSection(self_section, section_map, keys) ==
    IF keys = {} THEN self_section
    ELSE LET key == CHOOSE k \in keys : TRUE
             value == section_map[key]
             next == IF key \in DOMAIN self_section
                     THEN MapInsert(self_section, key,
                                    MergeValue(self_section[key], value))
                     ELSE MapInsert(self_section, key, value)
         IN  MergeSection(next, section_map, keys \ {key})

\* it.rs:82-99  the sections of `other` merged into self's sections
RECURSIVE MergeSections(_, _, _)
MergeSections(self_sections, other_sections, names) ==
    IF names = {} THEN self_sections
    ELSE LET section_key == CHOOSE k \in names : TRUE
             section_map == other_sections[section_key]
             next == IF section_key \notin DOMAIN self_sections
                     THEN MapInsert(self_sections, section_key, section_map)
                     ELSE MapInsert(self_sections, section_key,
                                    MergeSection(self_sections[section_key], section_map,
                                                 DOMAIN section_map))
         IN  MergeSections(next, other_sections, names \ {section_key})

\* it.rs:81-106  ITFile::merge
ITFileMerge(self, other) ==
    [version |-> self.version, aabstract |-> self.aabstract, extends |-> self.extends,
     sections |-> MergeSections(self.sections, other.sections, DOMAIN other.sections)]

(***************************************************************************)
(* SpecMerge: ITFile::merge applied to every pair of files parsed from a   *)
(* text of a header and at most MaxEntries section or key lines.           *)
(***************************************************************************)
MaxEntries == 3

MergeBodyUnits == {11, 12, 21, 22, 23, 24}

ParsedFiles ==
    {ITFileParse(<<h>> \o body).val :
        h \in {1, 3}, body \in SeqsUpTo(MergeBodyUnits, MaxEntries)}

InitMerge ==
    /\ FsIdle
    /\ \E child \in ParsedFiles, parent \in ParsedFiles :
          pf_in = [fn |-> "ITFile::merge", child |-> child, parent |-> parent]
    /\ pf_out = NoResult

ITFileMergeCall ==
    /\ pf_in.fn = "ITFile::merge"
    /\ pf_out = NoResult
    /\ pf_out' = Ok(ITFileMerge(pf_in.child, pf_in.parent))
    /\ UNCHANGED <<pf_in, store, srcStatus, bundle_index, paths, file_map, dat_cache,
                   txt_cache, it_cache, it_recursive_cache, alive, last>>

NextMerge == ITFileMergeCall

SpecMerge == InitMerge /\ [][NextMerge]_vars

MergeDone == pf_in.fn = "ITFile::merge" /\ pf_out # NoResult

HasKey(f, sec, key) == sec \in DOMAIN f.sections /\ key \in DOMAIN f.sections[sec]

\* C8: child.merge(parent) has, for every (section, key), the value of the one
\* file that has the key; the union when both have it as a Set; the child's
\* value otherwise.  No key of either file is dropped, no other key is added.
C8_MergeIsPointwise ==
    MergeDone =>
        LET c == pf_in.child
            p == pf_in.parent
            r == pf_out.val
        IN  /\ DOMAIN r.sections = DOMAIN c.sections \cup DOMAIN p.sections
            /\ \A sec \in DOMAIN r.sections :
                  /\ DOMAIN r.sections[sec] =
                        {k \in {"tag", "hp", "str"} : HasKey(c, sec, k) \/ HasKey(p, sec, k)}
                  /\ \A key \in DOMAIN r.sections[sec] :
                        LET v == r.sections[sec][key] IN
                        IF ~HasKey(p, sec, key) THEN v = c.sections[sec][key]
                        ELSE IF ~HasKey(c, sec, key) THEN v = p.sections[sec][key]
                        ELSE IF c.sections[sec][key].t = "Set" /\ p.sections[sec][key].t = "Set"
                             THEN v = SetOf(c.sections[sec][key].set
                                            \cup p.sections[sec][key].set)
                        ELSE v = c.sections[sec][key]

\* a merge in which Base.tag of child and parent were united and a scalar of
\* both files kept the child's value
C8_Witness ==
    /\ MergeDone
    /\ HasKey(pf_in.child, "Base", "tag") /\ HasKey(pf_in.parent, "Base", "tag")
    /\ Cardinality(pf_out.val.sections["Base"]["tag"].set) = 2
    /\ HasKey(pf_in.child, "Base", "hp") /\ HasKey(pf_in.parent, "Base", "hp")
    /\ pf_in.child.sections["Base"]["hp"] # pf_in.parent.sections["Base"]["hp"]

(***************************************************************************)
(* `dat` files: the layout discovery of DatFile::new.                      *)
(***************************************************************************)
\* dat.rs:27  a window of eight 0xBB bytes starts at 0-based offset i
SentinelAt(data, i) == \A j \in 1..8 : data[i + j] = 187

\* dat.rs:23-41  DatFile::new.  data[0..4], the position unwrap and the
\* division can each panic.  `boundary as u32 - 4` with boundary < 4 panics
\* when overflow checks are on (build = "debug") and wraps to
\* 2^32 - 4 + boundary otherwise (build = "release"): byte 3 of data is then
\* 0xBB, so row_count is at least 0xBB000000, more than half of the wrapped
\* difference, and the quotient is 1.
DatFileNew(data, build) ==
    IF Len(data) < 4 THEN Panic("index out of bounds")
    ELSE LET row_count == U32LE(data, 0)
             hits == {i \in 0..(Len(data) - 8) : SentinelAt(data, i)}
         IN  IF hits = {} THEN Panic("boundary unwrap")
             ELSE LET boundary == CHOOSE i \in hits : \A j \in hits : i <= j
                  IN  IF boundary < 4
                      THEN IF build = "debug"
                           THEN Panic("attempt to subtract with overflow")
                           ELSE Ok([data |-> data,
                                    row_count |-> row_count,
                                    row_length |-> 1,
                                    fixed_data_range |-> <<4, boundary>>,
                                    variable_data_range |-> <<boundary, Len(data)>>])
                      ELSE IF row_count = 0 THEN Panic("attempt to divide by zero")
                      ELSE Ok([data |-> data,
                               row_count |-> row_count,
                               row_length |-> (boundary - 4) \div row_count,
                               fixed_data_range |-> <<4, boundary>>,
                               variable_data_range |-> <<boundary, Len(data)>>])

(***************************************************************************)
(* The files behind the PoeFS of the model.  Three bundles: "x" holds the  *)
(* `it` files a.it, b.it and c.it, "y" holds t.txt and x.dat, "z" holds    *)
(* the raw files z1 and z2 and has a payload of exactly two blocks.  The   *)
(* path "ghost" is listed by the path-rep but has no file record; "nope"   *)
(* is no path of the index.                                                *)
(***************************************************************************)
\* a UTF-16 text as little-endian bytes
RECURSIVE Utf16Le(_)
Utf16Le(units) ==
    IF units = <<>> THEN <<>>
    ELSE <<Head(units) % 256, Head(units) \div 256>> \o Utf16Le(Tail(units))

\* the texts of the three `it` files, their headers' units being ha, hb, hc
TextA(ha) == <<BomUnit, ha, 11, 21, 23>>
TextB(hb) == <<hb, 11, 22, 24, 12, 26>>
TextC(hc) == <<BomUnit, hc, 11, 25, 12, 23>>
TextT == <<BomUnit, 104, 105>>
BytesDat == <<1, 0, 0, 0, 1, 187, 187, 187, 187, 187, 187, 187, 187>>

BundlePath(name) == "/Bundles2/" \o name \o ".bundle.bin"

WorldStore(ha, hb, hc) ==
    (BundlePath("x") :> MakeBundle(Utf16Le(TextA(ha)) \o Utf16Le(TextB(hb))
                                       \o Utf16Le(TextC(hc)), 8))
    @@ (BundlePath("y") :> MakeBundle(Utf16Le(TextT) \o BytesDat, 8))
    @@ (BundlePath("z") :> MakeBundle(<<1, 2, 3, 4, 5, 6, 7, 8>>, 4))

\* murmur64a(path, 0x1337b33f) on the paths of the model
Murmur64a ==
    ("a.it" :> 101) @@ ("b.it" :> 102) @@ ("c.it" :> 103) @@ ("t.txt" :> 104)
    @@ ("x.dat" :> 105) @@ ("z1" :> 106) @@ ("z2" :> 107) @@ ("ghost" :> 199)

WorldIndex ==
    [bundles |-> <<[name |-> "x"], [name |-> "y"], [name |-> "z"]>>,
     files |-> <<[hash |-> 101, bundle_index |-> 0, file_offset |-> 0, file_size |-> 10],
                 [hash |-> 102, bundle_index |-> 0, file_offset |-> 10, file_size |-> 12],
                 [hash |-> 103, bundle_index |-> 0, file_offset |-> 22, file_size |-> 12],
                 [hash |-> 104, bundle_index |-> 1, file_offset |-> 0, file_size |-> 6],
                 [hash |-> 105, bundle_index |-> 1, file_offset |-> 6, file_size |-> 13],
                 [hash |-> 106, bundle_index |-> 2, file_offset |-> 0, file_size |-> 4],
                 [hash |-> 107, bundle_index |-> 2, file_offset |-> 4, file_size |-> 4]>>]

(***************************************************************************)
(* PoeFS.  The helpers take the four caches as a record `fs` and return    *)
(* the caches after the call, the result, and the list of paths the source *)
(* adapter was asked for.                                                  *)
(***************************************************************************)
Some(v) == <<v>>
None == <<>>

Ret(fs, res, calls) == [fs |-> fs, res |-> res, calls |-> calls]

NotFound(msg) == Err("NotFound: " \o msg)

\* poefs/mod.rs:16-18  FileSource::get_file: an error, a missing file, or the
\* parsed bundle header with the compressed payload
SourceGetFile(path) ==
    IF srcStatus = "error" THEN Err("TransportError")
    ELSE IF srcStatus = "missing" \/ path \notin DOMAIN store THEN Ok(None)
    ELSE Ok(Some(store[path]))

\* a lookup miss that asks the source adapter for the index again
LookupMissRefetch(msg) ==
    [res |-> NotFound(msg), calls |-> <<"/Bundles2/_.index.bin">>]

\* poefs/mod.rs:70-81  the early returns of get_file
LookupMiss(msg) == [res |-> NotFound(msg), calls |-> <<>>]

\* poefs/mod.rs:93-98  decompress the bundle and copy the file's range
SliceOfBundle(file_record, bundle, oz) ==
    LET start == file_record.file_offset
        end == start + file_record.file_size
    IN  Bind(BundleData(bundle.head, bundle.payload, oz), LAMBDA bundle_uncompressed :
            IF bundle_uncompressed.kind # "Ok" THEN bundle_uncompressed
            ELSE IF end > Len(bundle_uncompressed.val)
                 THEN Panic("range end index out of range")
            ELSE Ok(Some(Slice(bundle_uncompressed.val, start, end))))

\* poefs/mod.rs:69-99  PoeFS::get_file
GetFile(path, oz) ==
    IF path \notin DOMAIN paths THEN LookupMiss("path not found in index bundle")
    ELSE LET hash == paths[path] IN
    IF hash \notin DOMAIN file_map THEN LookupMiss("path hash not found in file map")
    ELSE LET index == file_map[hash]
             file_record == bundle_index.files[index + 1]
         IN
    IF file_record.bundle_index >= Len(bundle_index.bundles)
    THEN [res |-> Panic("index out of bounds"), calls |-> <<>>]
    ELSE LET bundle_record == bundle_index.bundles[file_record.bundle_index + 1]
             request == BundlePath(bundle_record.name)
         IN
    Bind(SourceGetFile(request), LAMBDA got :
        IF got.kind # "Ok" THEN [res |-> got, calls |-> <<request>>]
        ELSE IF got.val = None
             THEN [res |-> NotFound("bundle file not found"), calls |-> <<request>>]
        ELSE [res |-> SliceOfBundle(file_record, got.val[1], oz), calls |-> <<request>>])

\* a read_dat that leaves an entry behind when the file cannot be fetched
ReadDatCachesFailure(fs, path, oz, build) ==
    IF path \in DOMAIN fs.dat_cache THEN Ret(fs, Ok(fs.dat_cache[path]), <<>>)
    ELSE Bind(GetFile(path, oz), LAMBDA got :
         IF got.res.kind # "Ok"
         THEN Ret([fs EXCEPT !.dat_cache = MapInsert(@, path, <<>>)], got.res, got.calls)
         ELSE Bind(DatFileNew(got.res.val[1], build), LAMBDA dat_file :
              IF dat_file.kind # "Ok" THEN Ret(fs, dat_file, got.calls)
              ELSE Ret([fs EXCEPT !.dat_cache = MapInsert(@, path, dat_file.val)],
                       dat_file, got.calls)))

\* poefs/mod.rs:106-118  PoeFS::read_dat
ReadDat(fs, path, oz, build) ==
    IF path \in DOMAIN fs.dat_cache THEN Ret(fs, Ok(fs.dat_cache[path]), <<>>)
    ELSE Bind(GetFile(path, oz), LAMBDA got :
         IF got.res.kind # "Ok" THEN Ret(fs, got.res, got.calls)
         ELSE Bind(DatFileNew(got.res.val[1], build), LAMBDA dat_file :
              IF dat_file.kind # "Ok" THEN Ret(fs, dat_file, got.calls)
              ELSE Ret([fs EXCEPT !.dat_cache = MapInsert(@, path, dat_file.val)],
                       dat_file, got.calls)))

\* poefs/mod.rs:141-144  chunks_exact(2) of little-endian units (an odd last
\* byte is dropped)
RECURSIVE Utf16Units(_)
Utf16Units(bytes) ==
    IF Len(bytes) < 2 THEN <<>>
    ELSE <<bytes[1] + 256 * bytes[2]>> \o Utf16Units(SubSeq(bytes, 3, Len(bytes)))

\* poefs/mod.rs:137-145  strip the byte-order mark and decode; bytes[0] and
\* bytes[1] are indexed unchecked.  The texts of the model hold no surrogate,
\* so from_utf16_lossy replaces nothing.
DecodeText(bytes) ==
    IF bytes = <<>> THEN Panic("index out of bounds")
    ELSE IF bytes[1] = 255 /\ Len(bytes) < 2 THEN Panic("index out of bounds")
    ELSE IF bytes[1] = 255 /\ bytes[2] = 254
         THEN Ok(Utf16Units(SubSeq(bytes, 3, Len(bytes))))
    ELSE Ok(Utf16Units(bytes))

\* a text cache that stores whatever was decoded
TxtCacheAlwaysInsert(fs, path, string, add_to_cache) ==
    [fs EXCEPT !.txt_cache = MapInsert(@, path, string)]

\* a text cache that never stores
TxtCacheNeverInsert(fs, path, string, add_to_cache) == fs

\* poefs/mod.rs:146-151  the text enters txt_cache only when asked to
TxtCacheInsert(fs, path, string, add_to_cache) ==
    IF add_to_cache THEN [fs EXCEPT !.txt_cache = MapInsert(@, path, string)] ELSE fs

\* poefs/mod.rs:125-152  PoeFS::read_txt_cache
ReadTxtCache(fs, path, add_to_cache, oz) ==
    IF path \in DOMAIN fs.txt_cache THEN Ret(fs, Ok(fs.txt_cache[path]), <<>>)
    ELSE Bind(GetFile(path, oz), LAMBDA got :
         IF got.res.kind # "Ok" THEN Ret(fs, got.res, got.calls)
         ELSE Bind(DecodeText(got.res.val[1]), LAMBDA string :
              IF string.kind # "Ok" THEN Ret(fs, string, got.calls)
              ELSE Ret(TxtCacheInsert(fs, path, string.val, add_to_cache), string,
                       got.calls)))

\* poefs/mod.rs:121-123  PoeFS::read_txt
ReadTxt(fs, path, oz) == ReadTxtCache(fs, path, TRUE, oz)

\* a read_it that parses the file again although it_cache holds it
ReadItRefetches(fs, path, oz) ==
    Bind(ReadTxtCache(fs, path, FALSE, oz), LAMBDA txt_file :
         IF txt_file.res.kind # "Ok" THEN txt_file
         ELSE Bind(ITFileParse(txt_file.res.val), LAMBDA it_file :
              IF it_file.kind # "Ok" THEN Ret(txt_file.fs, it_file, txt_file.calls)
              ELSE Ret([txt_file.fs EXCEPT !.it_cache = MapInsert(@, path, it_file.val)],
                       it_file, txt_file.calls)))

\* poefs/mod.rs:155-163  PoeFS::read_it
ReadIt(fs, path, oz) ==
    IF path \in DOMAIN fs.it_cache THEN Ret(fs, Ok(fs.it_cache[path]), <<>>)
    ELSE Bind(ReadTxtCache(fs, path, FALSE, oz), LAMBDA txt_file :
         IF txt_file.res.kind # "Ok" THEN txt_file
         ELSE Bind(ITFileParse(txt_file.res.val), LAMBDA it_file :
              IF it_file.kind # "Ok" THEN Ret(txt_file.fs, it_file, txt_file.calls)
              ELSE Ret([txt_file.fs EXCEPT !.it_cache = MapInsert(@, path, it_file.val)],
                       it_file, txt_file.calls)))

\* str::to_lowercase on the names the headers use
ToLowercase ==
    ("nothing" :> "nothing") @@ ("A" :> "a") @@ ("B" :> "b") @@ ("C" :> "c") @@ ("Z" :> "z")

\* poefs/mod.rs:178  the path of the parent file
ParentPath(extends) == ToLowercase[extends] \o ".it"

\* a merge with child and parent exchanged
MergeParentOverChild(it_file, parent_it) == ITFileMerge(parent_it, it_file)

\* poefs/mod.rs:180  it_file.merge(parent_it.clone())
MergeWithParent(it_file, parent_it) == ITFileMerge(it_file, parent_it)

\* depth of recursion at which the thread's stack is exhausted
MaxStack == 5

\* poefs/mod.rs:166-187  PoeFS::read_it_recursive, `depth` frames deep.  The
\* function keeps no record of the paths being resolved; a recursion that
\* outgrows the stack aborts the process.
RECURSIVE ReadItRecursive(_, _, _, _)
ReadItRecursive(fs, path, oz, depth) ==
    IF depth > MaxStack THEN Ret(fs, [kind |-> "StackOverflow", err |-> "", val |-> <<>>], <<>>)
    ELSE IF path \in DOMAIN fs.it_recursive_cache
         THEN Ret(fs, Ok(fs.it_recursive_cache[path]), <<>>)
    ELSE Bind(ReadIt(fs, path, oz), LAMBDA first :
         IF first.res.kind # "Ok" THEN first
         ELSE IF first.res.val.extends = "nothing"
              THEN Bind(ReadIt(first.fs, path, oz), LAMBDA again :
                       Ret(again.fs, again.res, first.calls \o again.calls))
         ELSE LET it_file == first.res.val
                  parent_path == ParentPath(it_file.extends)
              IN  Bind(ReadItRecursive(first.fs, parent_path, oz, depth + 1),
                       LAMBDA parent_it :
                  IF parent_it.res.kind # "Ok"
                  THEN Ret(parent_it.fs, parent_it.res, first.calls \o parent_it.calls)
                  ELSE Bind(MergeWithParent(it_file, parent_it.res.val), LAMBDA merged :
                           Ret([parent_it.fs EXCEPT
                                   !.it_recursive_cache = MapInsert(@, path, merged)],
                               Ok(merged), first.calls \o parent_it.calls))))

(***************************************************************************)
(* Spec: a PoeFS built over one of the worlds, then any sequence of calls  *)
(* of get_file and the typed helpers, while the source adapter may start   *)
(* or stop answering.                                                      *)
(***************************************************************************)
\* poefs/mod.rs:52-55  file_map: a later record of the same hash replaces an
\* earlier one
FileMapOf(files) ==
    [h \in {files[i].hash : i \in 1..Len(files)} |->
        (CHOOSE i \in 1..Len(files) :
            /\ files[i].hash = h
            /\ \A j \in 1..Len(files) : files[j].hash = h => j <= i) - 1]

\* the headers the three `it` files of a world may carry
HeadersA == {3}
HeadersB == {1, 2, 4}
HeadersC == {1, 2, 5}

PfIdle == pf_in = [fn |-> "none"] /\ pf_out = NoResult

\* poefs/mod.rs:33-67  PoeFS::new: the maps of the index, four empty caches
Init ==
    /\ \E ha \in HeadersA, hb \in HeadersB, hc \in HeadersC :
          store = WorldStore(ha, hb, hc)
    /\ srcStatus = "ok"
    /\ bundle_index = WorldIndex
    /\ paths = Murmur64a
    /\ file_map = FileMapOf(WorldIndex.files)
    /\ dat_cache = <<>>
    /\ txt_cache = <<>>
    /\ it_cache = <<>>
    /\ it_recursive_cache = <<>>
    /\ alive = TRUE
    /\ last = NoCall
    /\ PfIdle

Caches ==
    [dat_cache |-> dat_cache, txt_cache |-> txt_cache, it_cache |-> it_cache,
     it_recursive_cache |-> it_recursive_cache]

\* the state after a call that returned r
Finish(op, path, hit, r) ==
    /\ dat_cache' = r.fs.dat_cache
    /\ txt_cache' = r.fs.txt_cache
    /\ it_cache' = r.fs.it_cache
    /\ it_recursive_cache' = r.fs.it_recursive_cache
    /\ last' = [op |-> op, path |-> path, res |-> r.res, calls |-> r.calls, hit |-> hit]
    /\ alive' = (r.res.kind \in {"Ok", "Err"})
    /\ UNCHANGED <<store, srcStatus, bundle_index, paths, file_map, pf_in, pf_out>>

OodleChoices == {"fill", "refuse"}

GetFileCall ==
    /\ alive
    /\ \E path \in {"a.it", "z1", "z2", "ghost", "nope"},
          oz \in OodleChoices :
          \E got \in {GetFile(path, oz)} :
              Finish("get_file", path, FALSE, Ret(Caches, got.res, got.calls))

ReadDatCall ==
    /\ alive
    /\ \E path \in {"x.dat", "t.txt", "nope"}, oz \in OodleChoices, build \in Builds :
          \E r \in {ReadDat(Caches, path, oz, build)} :
              Finish("read_dat", path, path \in DOMAIN dat_cache, r)

ReadTxtCall ==
    /\ alive
    /\ \E path \in {"a.it", "ghost"}, oz \in OodleChoices :
          \E r \in {ReadTxt(Caches, path, oz)} :
              Finish("read_txt", path, path \in DOMAIN txt_cache, r)

ReadItCall ==
    /\ alive
    /\ \E path \in {"a.it", "b.it", "c.it", "t.txt"}, oz \in OodleChoices :
          \E r \in {ReadIt(Caches, path, oz)} :
              Finish("read_it", path, path \in DOMAIN it_cache, r)

ReadItRecursiveCall ==
    /\ alive
    /\ \E path \in {"a.it", "b.it", "c.it"}, oz \in OodleChoices :
          \E r \in {ReadItRecursive(Caches, path, oz, 1)} :
              Finish("read_it_recursive", path, path \in DOMAIN it_recursive_cache, r)

\* the source adapter starts or stops answering; the last call's outcome has
\* been consumed by then
SourceChange ==
    /\ alive
    /\ \E status \in {"ok", "missing", "error"} \ {srcStatus} : srcStatus' = status
    /\ last' = NoCall
    /\ UNCHANGED <<store, bundle_index, paths, file_map, dat_cache, txt_cache, it_cache,
                   it_recursive_cache, alive, pf_in, pf_out>>

Next ==
    \/ GetFileCall
    \/ ReadDatCall
    \/ ReadTxtCall
    \/ ReadItCall
    \/ ReadItRecursiveCall
    \/ SourceChange

Spec == Init /\ [][Next]_vars

(***************************************************************************)
(* What the files of the world hold, read off the store without the code   *)
(* of PoeFS: the reference the properties compare the calls with.          *)
(***************************************************************************)
RECURSIVE ConcatPlain(_)
ConcatPlain(blocks) ==
    IF blocks = <<>> THEN <<>> ELSE Tail(Head(blocks)) \o ConcatPlain(Tail(blocks))

\* the decompressed payload of a bundle file: every block at its plain length
PlainPayload(bundle) ==
    ConcatPlain(SplitBlocks(bundle.payload, bundle.head.block_sizes, 0))

Indexed(path) == path \in DOMAIN paths /\ paths[path] \in DOMAIN file_map

RecordOf(path) == bundle_index.files[file_map[paths[path]] + 1]

BundlePathOf(path) ==
    BundlePath(bundle_index.bundles[RecordOf(path).bundle_index + 1].name)

\* the bytes [file_offset, file_offset + file_size) of the file's bundle
TrueBytes(path) ==
    Slice(PlainPayload(store[BundlePathOf(path)]), RecordOf(path).file_offset,
          RecordOf(path).file_offset + RecordOf(path).file_size)

TrueIt(path) == ITFileParse(DecodeText(TrueBytes(path)).val)

Helpers == {"read_dat", "read_txt", "read_it", "read_it_recursive"}

CacheOf(op) ==
    CASE op = "read_dat" -> dat_cache
      [] op = "read_txt" -> txt_cache
      [] op = "read_it" -> it_cache
      [] op = "read_it_recursive" -> it_recursive_cache

\* C1: for every path p with paths[p] = h and file_map[h] = ix, get_file(p) asks
\* the source adapter for exactly one bundle, /Bundles2/<name>.bundle.bin, and
\* returns Some(bytes), the file's range of that bundle's decompressed payload
\* (stated for a source adapter that holds the bundle and answers).
C1_GetFileReturnsSlice ==
    (last.op = "get_file" /\ Indexed(last.path) /\ srcStatus = "ok")
        => /\ last.calls = <<BundlePathOf(last.path)>>
           /\ last.res = Ok(Some(TrueBytes(last.path)))

\* C2: get_file on a path absent from paths, or whose hash is absent from
\* file_map, returns NotFound, makes no call to the source adapter, and leaves
\* paths, file_map and the four caches unchanged.
C2_LookupMissStep ==
    (last'.op = "get_file" /\ ~Indexed(last'.path))
        => /\ last'.res \in {NotFound("path not found in index bundle"),
                             NotFound("path hash not found in file map")}
           /\ last'.calls = <<>>
           /\ UNCHANGED <<paths, file_map, dat_cache, txt_cache, it_cache,
                          it_recursive_cache>>

C2_LookupMissTouchesNothing == [][C2_LookupMissStep]_vars

\* get_file has missed on the path without a file record, on a PoeFS whose
\* caches hold entries
C2_Witness ==
    /\ last.op = "get_file" /\ last.path = "ghost" /\ last.res.kind = "Err"
    /\ DOMAIN it_cache # {} /\ DOMAIN it_recursive_cache # {} /\ DOMAIN dat_cache # {}

\* C4 as stated: whenever a typed helper returns successfully after a miss in
\* its cache, the value has been inserted under the path into its own cache.
C4_MissInsertsIntoOwnCache ==
    (last.op \in Helpers /\ last.res.kind = "Ok" /\ ~last.hit)
        => /\ last.path \in DOMAIN CacheOf(last.op)
           /\ CacheOf(last.op)[last.path] = last.res.val

\* C4 amended: read_dat, read_txt and read_it insert the value under the path
\* into their own cache; read_it_recursive inserts the merged value into
\* it_recursive_cache when the file extends a parent, and when the file extends
\* "nothing" it returns the entry of it_cache and it_recursive_cache gets no
\* entry for the path.
C4_MissInsertsUnlessRoot ==
    (last.op \in Helpers /\ last.res.kind = "Ok" /\ ~last.hit)
        => IF last.op = "read_it_recursive" /\ last.res.val.extends = "nothing"
           THEN /\ last.path \notin DOMAIN it_recursive_cache
                /\ last.path \in DOMAIN it_cache
                /\ it_cache[last.path] = last.res.val
           ELSE /\ last.path \in DOMAIN CacheOf(last.op)
                /\ CacheOf(last.op)[last.path] = last.res.val

\* read_it_recursive has succeeded on a file that extends "nothing", and on
\* another call a text entered txt_cache
C4_Witness ==
    /\ last.op = "read_it_recursive" /\ last.res.kind = "Ok" /\ ~last.hit
    /\ last.res.val.extends = "nothing"
    /\ DOMAIN txt_cache # {} /\ DOMAIN it_recursive_cache # {}

\* the file of the path and the files it extends, merged child over parent;
\* `fuel` bounds the walk
RECURSIVE TrueClosure(_, _)
TrueClosure(path, fuel) ==
    LET f == TrueIt(path).val IN
    IF f.extends = "nothing" \/ fuel = 0 THEN f
    ELSE ITFileMerge(f, TrueClosure(ParentPath(f.extends), fuel - 1))

\* C5: a helper call that fails adds no entry for the requested path to that
\* helper's cache, and every cache entry is the value of a successful
\* fetch-and-parse of its key.
C5_CachesHoldOnlyParses ==
    /\ (last.op \in Helpers /\ last.res.kind # "Ok")
           => last.path \notin DOMAIN CacheOf(last.op)
    /\ \A p \in DOMAIN dat_cache :
           Indexed(p) /\ \E build \in Builds : Ok(dat_cache[p]) = DatFileNew(TrueBytes(p), build)
    /\ \A p \in DOMAIN txt_cache :
           Indexed(p) /\ Ok(txt_cache[p]) = DecodeText(TrueBytes(p))
    /\ \A p \in DOMAIN it_cache :
           Indexed(p) /\ Ok(it_cache[p]) = TrueIt(p)
    /\ \A p \in DOMAIN it_recursive_cache :
           Indexed(p) /\ it_recursive_cache[p] = TrueClosure(p, Cardinality(DOMAIN paths))

\* read_it_recursive has failed on a file whose own text was parsed: the
\* parent could not be loaded
C5_Witness ==
    /\ last.op = "read_it_recursive" /\ last.res.kind = "Err"
    /\ last.path \in DOMAIN it_cache
    /\ DOMAIN dat_cache # {}

\* the chain of `extends` from the path comes to an end within `fuel` steps
RECURSIVE ChainEnds(_, _)
ChainEnds(path, fuel) ==
    IF ~Indexed(path) \/ TrueIt(path).kind # "Ok" THEN TRUE
    ELSE IF TrueIt(path).val.extends = "nothing" THEN TRUE
    ELSE IF fuel = 0 THEN FALSE
    ELSE ChainEnds(ParentPath(TrueIt(path).val.extends), fuel - 1)

Cyclic(path) == ~ChainEnds(path, Cardinality(DOMAIN paths))

\* C6: read_it_recursive(p) terminates when the chain of `extends` from p is
\* cyclic: the call fails with CycleError instead of recursing for ever.
C6_CyclicChainFailsWithCycleError ==
    (last.op = "read_it_recursive" /\ srcStatus = "ok" /\ Cyclic(last.path))
        => last.res = Err("CycleError")

\* the chain p0, p1, ... of the path as it_cache records it
RECURSIVE ChainPaths(_, _)
ChainPaths(path, fuel) ==
    IF path \notin DOMAIN it_cache THEN <<path>>
    ELSE IF it_cache[path].extends = "nothing" \/ fuel = 0 THEN <<path>>
    ELSE <<path>> \o ChainPaths(ParentPath(it_cache[path].extends), fuel - 1)

\* merge(f0, merge(f1, ... merge(f(n-1), fn))) with fi = it_cache[chain[i]]
RECURSIVE FoldMerge(_)
FoldMerge(chain) ==
    IF Len(chain) = 1 THEN it_cache[chain[1]]
    ELSE ITFileMerge(it_cache[chain[1]], FoldMerge(Tail(chain)))

SectionNames == {"Base", "Stats"}
KeyNames == {"tag", "hp", "str"}

\* C7: on an acyclic chain p0 -> ... -> pn read_it_recursive(p0) returns
\* merge(f0, merge(f1, ... merge(f(n-1), fn))) with fi = read_it(pi), f0 itself
\* for n = 0; a scalar key has the value of the nearest file of the chain that
\* defines it, and Base.tag is the union over the chain.
C7_RecursiveIsChainMerge ==
    (last.op = "read_it_recursive" /\ last.res.kind = "Ok")
        => LET chain == ChainPaths(last.path, Cardinality(DOMAIN paths))
               f(i) == it_cache[chain[i]]
               r == last.res.val
           IN  /\ \A i \in 1..Len(chain) : chain[i] \in DOMAIN it_cache
               /\ f(Len(chain)).extends = "nothing"
               /\ r = FoldMerge(chain)
               /\ \A sec \in SectionNames, key \in KeyNames :
                     LET having == {i \in 1..Len(chain) : HasKey(f(i), sec, key)}
                         nearest == CHOOSE i \in having : \A j \in having : i <= j
                     IN  /\ HasKey(r, sec, key) <=> having # {}
                         /\ having # {} =>
                               IF sec = "Base" /\ key = "tag"
                               THEN r.sections[sec][key] =
                                       SetOf(UNION {f(i).sections[sec][key].set : i \in having})
                               ELSE r.sections[sec][key] = f(nearest).sections[sec][key]

\* read_it_recursive has merged a chain of three files
C7_Witness ==
    /\ last.op = "read_it_recursive" /\ last.res.kind = "Ok" /\ ~last.hit
    /\ Len(ChainPaths(last.path, Cardinality(DOMAIN paths))) = 3
    /\ Cardinality(last.res.val.sections["Base"]["tag"].set) = 3

(***************************************************************************)
(* Bundle header on the wire (Bundle::parse), and the bytes of a bundle    *)
(* file built from a header and its payload.                               *)
(***************************************************************************)
\* read_u64::<LittleEndian> at 0-based position pos
U64LE(bytes, pos) == U32LE(bytes, pos) + 65536 * (65536 * U32LE(bytes, pos + 4))

U32Bytes(n) == <<n % 256, (n \div 256) % 256, (n \div 65536) % 256, n \div 16777216>>

U64Bytes(n) == U32Bytes(n) \o <<0, 0, 0, 0>>

\* bundle.rs:79-82  block_count sizes read from position pos on
RECURSIVE ReadBlockSizes(_, _, _)
ReadBlockSizes(bytes, pos, block_count) ==
    IF block_count = 0 THEN <<>>
    ELSE <<U32LE(bytes, pos)>> \o ReadBlockSizes(bytes, pos + 4, block_count - 1)

\* bundle.rs:66-93  HeadPayload::parse at position pos; every read is a
\* read_exact, so a short input is UnexpectedEof
HeadPayloadParse(bytes, pos) ==
    IF Len(bytes) < pos + 48 THEN Err("UnexpectedEof")
    ELSE LET block_count == U32LE(bytes, pos + 24) IN
         IF Len(bytes) < pos + 48 + 4 * block_count THEN Err("UnexpectedEof")
         ELSE Ok([first_file_encode |-> U32LE(bytes, pos),
                  unk10 |-> U32LE(bytes, pos + 4),
                  uncompressed_size |-> U64LE(bytes, pos + 8),
                  total_payload_size |-> U64LE(bytes, pos + 16),
                  block_count |-> block_count,
                  uncompressed_block_granularity |-> U32LE(bytes, pos + 28),
                  unk28 |-> <<U32LE(bytes, pos + 32), U32LE(bytes, pos + 36),
                              U32LE(bytes, pos + 40), U32LE(bytes, pos + 44)>>,
                  block_sizes |-> ReadBlockSizes(bytes, pos + 48, block_count)])

\* bundle.rs:14-25  Bundle::parse from the start of bytes; `position` is the
\* cursor after the header
BundleParse(bytes) ==
    IF Len(bytes) < 12 THEN Err("UnexpectedEof")
    ELSE Bind(HeadPayloadParse(bytes, 12), LAMBDA head_payload :
         IF head_payload.kind # "Ok" THEN head_payload
         ELSE Ok([uncompressed_size |-> U32LE(bytes, 0),
                  total_payload_size |-> U32LE(bytes, 4),
                  head_payload_size |-> U32LE(bytes, 8),
                  head_payload |-> head_payload.val,
                  position |-> 60 + 4 * head_payload.val.block_count]))

RECURSIVE ConcatU32(_)
ConcatU32(sizes) ==
    IF sizes = <<>> THEN <<>> ELSE U32Bytes(Head(sizes)) \o ConcatU32(Tail(sizes))

\* the bytes of the bundle file MakeBundle(payload, gran)
BundleFileBytes(payload, gran) ==
    LET b == MakeBundle(payload, gran)
        h == b.head
    IN  U32Bytes(h.uncompressed_size) \o U32Bytes(h.total_payload_size)
        \o U32Bytes(48 + 4 * h.block_count)
        \o U32Bytes(8) \o U32Bytes(0)
        \o U64Bytes(h.uncompressed_size) \o U64Bytes(h.total_payload_size)
        \o U32Bytes(h.block_count) \o U32Bytes(h.uncompressed_block_granularity)
        \o U32Bytes(0) \o U32Bytes(0) \o U32Bytes(0) \o U32Bytes(0)
        \o ConcatU32(h.block_sizes)
        \o b.payload

(***************************************************************************)
(* GGPK tree reader.  A GGPK file is a function from record offsets to     *)
(* records; a record keeps its tag, its name, the offsets of its children  *)
(* and, for a FILE, the bytes that follow its header.  The reader's cursor *)
(* is the offset of the record parsed last: it stands right behind that    *)
(* record's header.                                                        *)
(***************************************************************************)
Ggpk(entries) == [tag |-> "GGPK", name |-> "", entries |-> entries, body |-> <<>>]
Pdir(name, entries) == [tag |-> "PDIR", name |-> name, entries |-> entries, body |-> <<>>]
File(name, body) == [tag |-> "FILE", name |-> name, entries |-> <<>>, body |-> body]
Free == [tag |-> "FREE", name |-> "", entries |-> <<>>, body |-> <<>>]

\* ggpk.rs:25-30  Entry::parse after a seek to offset
EntryParse(file, offset) ==
    IF offset \in DOMAIN file THEN Ok(file[offset]) ELSE Err("UnexpectedEof")

Found(res, cursor) == [res |-> res, cursor |-> cursor]

\* local.rs:55-61  a FILE matches when its name is the first component left
FileMatch(name, path) == name = path[1]

\* the deepest descent the reader's stack holds
MaxDepth == 6

RECURSIVE FindFileHelper(_, _, _, _, _)
RECURSIVE FindChild(_, _, _, _, _)
RECURSIVE FindInEntries(_, _, _, _, _, _)

\* local.rs:46-48, 63-65  seek to the child, parse it (unwrap), descend; a
\* descent deeper than the stack aborts the process
FindChild(file, offset, cursor, path, depth) ==
    IF depth >= MaxDepth THEN Found(Panic("stack overflow"), cursor)
    ELSE Bind(EntryParse(file, offset), LAMBDA entry :
        IF entry.kind # "Ok" THEN Found(Panic("Entry::parse unwrap"), cursor)
        ELSE FindFileHelper(file, entry.val, offset, path, depth + 1))

\* a directory loop that seeks on to the last child after a find
FindInEntriesSeeksOn(file, entries, i, cursor, path, depth) ==
    IF i > Len(entries) THEN Found(Ok(None), cursor)
    ELSE Bind(FindChild(file, entries[i], cursor, path, depth), LAMBDA found_file :
         IF found_file.res # Ok(None)
         THEN Found(found_file.res, entries[Len(entries)])
         ELSE FindInEntries(file, entries, i + 1, found_file.cursor, path, depth))

\* local.rs:45-53  the children of a PDIR in stored order, until one finds
FindInEntries(file, entries, i, cursor, path, depth) ==
    IF i > Len(entries) THEN Found(Ok(None), cursor)
    ELSE Bind(FindChild(file, entries[i], cursor, path, depth), LAMBDA found_file :
         IF found_file.res # Ok(None) THEN found_file
         ELSE FindInEntries(file, entries, i + 1, found_file.cursor, path, depth))

\* local.rs:29-75  LocalSource::find_file_helper (utils.rs:45-91 is the same)
FindFileHelper(file, entry, cursor, path, depth) ==
    IF path = <<>> THEN Found(Ok(None), cursor)
    ELSE CASE entry.tag = "FREE" -> Found(Ok(None), cursor)
           [] entry.tag = "PDIR" ->
                IF entry.name # path[1] THEN Found(Ok(None), cursor)
                ELSE FindInEntries(file, entry.entries, 1, cursor, Tail(path), depth)
           [] entry.tag = "FILE" ->
                IF FileMatch(entry.name, path) THEN Found(Ok(Some(entry)), cursor)
                ELSE Found(Ok(None), cursor)
           [] entry.tag = "GGPK" ->
                Bind(FindChild(file, entry.entries[1], cursor, path, depth),
                     LAMBDA found_file :
                        IF found_file.res # Ok(None) THEN found_file
                        ELSE FindChild(file, entry.entries[2], found_file.cursor, path,
                                       depth))

\* path.split('/'): the pieces between the separators, empty ones included;
\* a path is a sequence of names and separators
RECURSIVE SplitOn(_, _, _)
SplitOn(tokens, sep, piece) ==
    IF tokens = <<>> THEN <<piece>>
    ELSE IF Head(tokens) = sep THEN <<piece>> \o SplitOn(Tail(tokens), sep, "")
    ELSE SplitOn(Tail(tokens), sep, piece \o Head(tokens))

\* local.rs:82-86  the bundle header at the cursor and exactly
\* total_payload_size bytes behind it
ReadBundleAt(bytes) ==
    Bind(BundleParse(bytes), LAMBDA bundle :
        IF bundle.kind # "Ok" THEN bundle
        ELSE IF Len(bytes) - bundle.val.position < bundle.val.total_payload_size
             THEN Err("UnexpectedEof")
        ELSE Ok(Some(<<bundle.val,
                       Slice(bytes, bundle.val.position,
                             bundle.val.position + bundle.val.total_payload_size)>>)))

\* local.rs:78-88  LocalSource::get_file: the tree reader's result is unwrapped
LocalGetFile(file, path) ==
    LET vec == SplitOn(path, "/", "") IN
    Bind(FindFileHelper(file, file[0], 0, vec, 1), LAMBDA found :
        IF found.res.kind # "Ok" THEN found.res
        ELSE IF found.res.val = None
             THEN Panic("Option::unwrap on None")
        ELSE ReadBundleAt(file[found.cursor].body))

\* utils.rs:94-110  find_file: the components of the path handed to the helper
FindFile(file, path) == FindFileHelper(file, file[0], 0, SplitOn(path, "/", ""), 1)

(***************************************************************************)
(* Online source adapter.  The CDN's answer is an input: the request fails *)
(* in transport, or a response with a status and a body arrives.           *)
(***************************************************************************)
\* online.rs:27-38  OnlineSource::get_file.  reqwest::blocking::get returns
\* an error only when no response arrives; the status is never looked at.
OnlineGetFile(response) ==
    IF response.transport # "ok" THEN Err("TransportError")
    ELSE Bind(BundleParse(response.body), LAMBDA bundle :
         IF bundle.kind # "Ok" THEN bundle
         ELSE Ok(Some(<<bundle.val,
                        Slice(response.body, bundle.val.position, Len(response.body))>>)))

(***************************************************************************)
(* SpecSource: the tree reader and the two source adapters, each applied   *)
(* once to an input.  The GGPK files are all trees over the offsets        *)
(* 1..MaxOffset below a root whose children are the records 1 and 2; a     *)
(* PDIR refers to at most two records behind it.                           *)
(***************************************************************************)
\* largest record offset of a GGPK file
MaxOffset == 4

FileNames == {"a", "b"}
DirNames == {"", "a"}

\* what follows the header of the FILE of that name: a whole bundle file, or
\* three bytes
BodyOf(name) == IF name = "a" THEN BundleFileBytes(<<7>>, 1) ELSE <<1, 2, 3>>

ChildSeqs(S) ==
    {<<>>} \cup {<<x>> : x \in S} \cup {p \in S \X S : p[1] # p[2]}

RecordsAt(i) ==
    IF i = 2 THEN {Free, File("a", BodyOf("a"))}
    ELSE {Free} \cup {File(n, BodyOf(n)) : n \in FileNames}
         \cup {Pdir(n, c) : n \in DirNames, c \in ChildSeqs((i + 1)..MaxOffset)}

RECURSIVE RecordsFrom(_)
RecordsFrom(i) ==
    IF i > MaxOffset THEN {<<>>}
    ELSE {<<r>> \o t : r \in RecordsAt(i), t \in RecordsFrom(i + 1)}

GgpkFiles ==
    {[o \in 0..MaxOffset |-> IF o = 0 THEN Ggpk(<<1, 2>>) ELSE t[o]] :
        t \in RecordsFrom(1)}

RequestPaths ==
    {<<"/", "a">>, <<"/", "a", "/", "b">>, <<"/", "a", "/", "a">>, <<"a">>, <<"/", "b">>}

\* the CDN's answers: no response, or a status with a bundle file, an error
\* page or nothing as the body
Responses ==
    [transport : {"ok", "failed"}, status : {200, 404, 500},
     body : {BundleFileBytes(<<7>>, 1), <<60, 104, 49, 62>>, <<>>}]

InitSource ==
    /\ FsIdle
    /\ \/ \E file \in GgpkFiles, path \in RequestPaths,
             fn \in {"LocalSource::get_file", "find_file"} :
             pf_in = [fn |-> fn, file |-> file, path |-> path]
       \/ \E response \in Responses :
             pf_in = [fn |-> "OnlineSource::get_file", response |-> response]
    /\ pf_out = NoResult

FindFileCall ==
    /\ pf_in.fn = "find_file"
    /\ pf_out = NoResult
    /\ pf_out' = FindFile(pf_in.file, pf_in.path)
    /\ UNCHANGED <<pf_in, store, srcStatus, bundle_index, paths, file_map, dat_cache,
                   txt_cache, it_cache, it_recursive_cache, alive, last>>

LocalGetFileCall ==
    /\ pf_in.fn = "LocalSource::get_file"
    /\ pf_out = NoResult
    /\ pf_out' = LocalGetFile(pf_in.file, pf_in.path)
    /\ UNCHANGED <<pf_in, store, srcStatus, bundle_index, paths, file_map, dat_cache,
                   txt_cache, it_cache, it_recursive_cache, alive, last>>

OnlineGetFileCall ==
    /\ pf_in.fn = "OnlineSource::get_file"
    /\ pf_out = NoResult
    /\ pf_out' = OnlineGetFile(pf_in.response)
    /\ UNCHANGED <<pf_in, store, srcStatus, bundle_index, paths, file_map, dat_cache,
                   txt_cache, it_cache, it_recursive_cache, alive, last>>

NextSource ==
    \/ FindFileCall
    \/ LocalGetFileCall
    \/ OnlineGetFileCall

SpecSource == InitSource /\ [][NextSource]_vars

\* the offset of the first FILE, in stored depth-first order, whose name is
\* the final component and whose PDIRs on the way down carry the components
\* before it; None when there is none
RECURSIVE FirstFileAt(_, _, _)
RECURSIVE FirstFileIn(_, _, _, _)
FirstFileAt(file, offset, path) ==
    LET entry == file[offset] IN
    IF path = <<>> THEN None
    ELSE CASE entry.tag = "FREE" -> None
           [] entry.tag = "GGPK" -> FirstFileIn(file, entry.entries, 1, path)
           [] entry.tag = "PDIR" ->
                IF entry.name = path[1]
                THEN FirstFileIn(file, entry.entries, 1, Tail(path)) ELSE None
           [] entry.tag = "FILE" ->
                IF entry.name = path[1] /\ Len(path) = 1 THEN Some(offset) ELSE None

FirstFileIn(file, entries, i, path) ==
    IF i > Len(entries) THEN None
    ELSE LET first == FirstFileAt(file, entries[i], path)
         IN  IF first # None THEN first ELSE FirstFileIn(file, entries, i + 1, path)

FindDone == pf_in.fn = "find_file" /\ pf_out # NoResult

\* C11: find returns a FILE only when its name is the final component and the
\* PDIRs of the descent carry the components before it (a GGPK consumes none);
\* a FILE named like a component that is not the final one is never returned;
\* of several matches the first in stored depth-first order is returned.
C11_FindReturnsFirstFinalMatch ==
    FindDone =>
        LET first == FirstFileAt(pf_in.file, 0, SplitOn(pf_in.path, "/", ""))
        IN  IF first = None THEN pf_out.res = Ok(None)
            ELSE /\ pf_out.res = Ok(Some(pf_in.file[first[1]]))
                 /\ pf_out.cursor = first[1]

\* C12: LocalSource.get_file on a path that resolves to no FILE record returns
\* Ok(None), neither an error nor an abort.
C12_LocalMissIsOkNone ==
    (/\ pf_in.fn = "LocalSource::get_file"
     /\ pf_out # NoResult
     /\ FindFile(pf_in.file, pf_in.path).res = Ok(None))
        => pf_out = Ok(None)

\* C13: OnlineSource.get_file returns Ok(None) on a 404, TransportError on any
\* other non-2xx status or network failure, and Ok(Some((header, payload)))
\* only for a successful response.
C13_OnlineStatusOutcomes ==
    (pf_in.fn = "OnlineSource::get_file" /\ pf_out # NoResult)
        => LET r == pf_in.response IN
           /\ (r.transport = "ok" /\ r.status = 404) => pf_out = Ok(None)
           /\ (r.transport # "ok" \/ r.status \notin {200, 404})
                  => pf_out = Err("TransportError")
           /\ (pf_out.kind = "Ok" /\ pf_out.val # None)
                  => (r.transport = "ok" /\ r.status = 200)

\* C22: when find returns a FILE record, the reader stands right behind the
\* header of that record, the one parsed last: no seek or parse happens
\* between parsing the matched record and returning, at any depth.
C22_CursorBehindMatchedHeader ==
    (FindDone /\ pf_out.res.kind = "Ok" /\ pf_out.res.val # None)
        => /\ pf_out.cursor \in DOMAIN pf_in.file
           /\ pf_in.file[pf_out.cursor] = pf_out.res.val[1]
           /\ pf_out.res.val[1].tag = "FILE"

\* a FILE found below a PDIR that lists another record behind it
C22_Witness ==
    /\ FindDone /\ pf_out.res.kind = "Ok" /\ pf_out.res.val # None
    /\ \E o \in DOMAIN pf_in.file :
          /\ pf_in.file[o].tag = "PDIR"
          /\ Len(pf_in.file[o].entries) = 2
          /\ pf_in.file[o].entries[1] = pf_out.cursor
          /\ pf_in.file[pf_in.file[o].entries[2]] # pf_in.file[pf_out.cursor]

(***************************************************************************)
(* `dat` rows.  An integer read from a cursor is kept as its little-endian *)
(* bytes; where the code uses it as an offset or a count, Index gives its  *)
(* value, or one past `limit` when it is larger than that.                 *)
(***************************************************************************)
Index(le, limit) ==
    IF \E j \in 4..Len(le) : le[j] # 0 THEN limit + 1
    ELSE Min(le[1] + 256 * le[2] + 65536 * le[3], limit + 1)

\* dat.rs:55-57  fixed_data: &data[fixed_data_range]
FixedData(dat) ==
    IF dat.fixed_data_range[1] > dat.fixed_data_range[2]
    THEN Panic("slice index starts after its end")
    ELSE Ok(Slice(dat.data, dat.fixed_data_range[1], dat.fixed_data_range[2]))

\* dat.rs:60-62  variable_data: &data[variable_data_range]
VariableData(dat) ==
    Slice(dat.data, dat.variable_data_range[1], dat.variable_data_range[2])

\* dat.rs:65-72  nth_row: the bytes of the row's fixed cursor
NthRow(dat, n) ==
    LET start == n * dat.row_length
        end == start + dat.row_length
    IN  Bind(FixedData(dat), LAMBDA fixed :
            IF fixed.kind # "Ok" THEN fixed
            ELSE IF end > Len(fixed.val) THEN Panic("range end index out of range")
            ELSE Ok(Slice(fixed.val, start, end)))

DatValue(t, v) == [t |-> t, v |-> v]

Read(res, pos) == [res |-> res, pos |-> pos]

\* read_u8 .. read_u64 with unwrap: n bytes at the cursor, or a panic
Take(bytes, pos, n) ==
    IF pos + n > Len(bytes) THEN Read(Panic("read unwrap: UnexpectedEof"), pos)
    ELSE Read(Ok(Slice(bytes, pos, pos + n)), pos + n)

\* dat.rs:104-107  chunks_exact(2) with u16::from_ne_bytes on the build's target
RECURSIVE NativeUnits(_, _)
NativeUnits(bytes, endian) ==
    IF Len(bytes) < 2 THEN <<>>
    ELSE <<IF endian = "little" THEN bytes[1] + 256 * bytes[2]
           ELSE 256 * bytes[1] + bytes[2]>>
         \o NativeUnits(Tail(Tail(bytes)), endian)

ZeroRun(data, index) == \A j \in 1..4 : data[index + j] = 0

\* a terminator search that takes the first zero run, at any index
RECURSIVE FirstTerminatorAnyIndex(_, _)
FirstTerminatorAnyIndex(data, index) ==
    IF index + 4 > Len(data) THEN None
    ELSE IF ZeroRun(data, index) THEN Some(index)
    ELSE FirstTerminatorAnyIndex(data, index + 1)

\* dat.rs:99-103  windows(4).enumerate().position(zero run at an even index)
RECURSIVE FirstTerminator(_, _)
FirstTerminator(data, index) ==
    IF index + 4 > Len(data) THEN None
    ELSE IF ZeroRun(data, index) /\ index % 2 = 0 THEN Some(index)
    ELSE FirstTerminator(data, index + 1)

\* dat.rs:97-109  read_variable_string
ReadVariableString(heap, offset, endian) ==
    IF offset > Len(heap) THEN Panic("range start index out of range")
    ELSE LET data == Slice(heap, offset, Len(heap)) IN
         Bind(FirstTerminator(data, 0), LAMBDA length :
             IF length = None THEN Panic("position unwrap")
             ELSE Ok(NativeUnits(Slice(data, 0, length[1]), endian)))

\* dat.rs:244-250  wrap_usize: 0xfefefefefefefefe is "absent"
WrapUsize(le) == IF \A j \in 1..8 : le[j] = 254 THEN None ELSE Some(le)

\* dat.rs:223-226  `row as usize` of an i32: sign-extended to eight bytes
SignExtend(le) == le \o (IF le[4] >= 128 THEN <<255, 255, 255, 255>> ELSE <<0, 0, 0, 0>>)

ColumnTypes ==
    {"Bool", "String", "I16", "I32", "U16", "U32", "F32", "Array", "Row",
     "ForeignRow", "EnumRow"}

\* dat.rs:154-168, 191-242  the reader get_fn picks for the column type,
\* applied to a cursor (bytes, pos)
ReadFn(ttype, bytes, pos, variable_data, endian) ==
    CASE ttype = "Bool" ->
           Bind(Take(bytes, pos, 1), LAMBDA value :
               IF value.res.kind # "Ok" THEN value
               ELSE Read(Ok(DatValue("Bool", <<value.res.val[1] > 0>>)), value.pos))
      [] ttype = "String" ->
           Bind(Take(bytes, pos, 8), LAMBDA string_offset :
               IF string_offset.res.kind # "Ok" THEN string_offset
               ELSE Bind(ReadVariableString(variable_data,
                             Index(string_offset.res.val, Len(variable_data)), endian),
                         LAMBDA string :
                    IF string.kind # "Ok" THEN Read(string, string_offset.pos)
                    ELSE Read(Ok(DatValue("String", string.val)), string_offset.pos)))
      [] ttype \in {"I16", "U16"} ->
           Bind(Take(bytes, pos, 2), LAMBDA value :
               IF value.res.kind # "Ok" THEN value
               ELSE Read(Ok(DatValue(ttype, value.res.val)), value.pos))
      [] ttype \in {"I32", "U32"} ->
           Bind(Take(bytes, pos, 4), LAMBDA value :
               IF value.res.kind # "Ok" THEN value
               ELSE Read(Ok(DatValue(ttype, value.res.val)), value.pos))
      [] ttype = "F32" -> Read(Panic("not yet implemented"), pos)
      [] ttype = "Array" ->
           Bind(Take(bytes, pos, 8), LAMBDA array_length :
               IF array_length.res.kind # "Ok" THEN array_length
               ELSE Bind(Take(bytes, array_length.pos, 8), LAMBDA variable_offset :
                    IF variable_offset.res.kind # "Ok" THEN variable_offset
                    ELSE Read(Ok(DatValue("UnknownArray",
                                  <<variable_offset.res.val, array_length.res.val>>)),
                              variable_offset.pos)))
      [] ttype = "Row" ->
           Bind(Take(bytes, pos, 8), LAMBDA row :
               IF row.res.kind # "Ok" THEN row
               ELSE Read(Ok(DatValue("Row", WrapUsize(row.res.val))), row.pos))
      [] ttype = "ForeignRow" ->
           Bind(Take(bytes, pos, 8), LAMBDA rid :
               IF rid.res.kind # "Ok" THEN rid
               ELSE Bind(Take(bytes, rid.pos, 8), LAMBDA unknown :
                    IF unknown.res.kind # "Ok" THEN unknown
                    ELSE Read(Ok(DatValue("ForeignRow",
                                  <<WrapUsize(rid.res.val), WrapUsize(unknown.res.val)>>)),
                              unknown.pos)))
      [] ttype = "EnumRow" ->
           Bind(Take(bytes, pos, 4), LAMBDA row :
               IF row.res.kind # "Ok" THEN row
               ELSE Read(Ok(DatValue("EnumRow", SignExtend(row.res.val))), row.pos))

\* dat.rs:184-186  array_length elements read off the variable reader
RECURSIVE ReadElements(_, _, _, _, _, _)
ReadElements(ttype, variable_data, vpos, count, arr, endian) ==
    IF count = 0 THEN Ok(DatValue("Array", arr))
    ELSE Bind(ReadFn(ttype, variable_data, vpos, variable_data, endian), LAMBDA element :
         IF element.res.kind # "Ok" THEN element.res
         ELSE ReadElements(ttype, variable_data, element.pos, count - 1,
                           Append(arr, element.res.val), endian))

\* dat.rs:175-188  read_array: get_fn first, then length and offset off the
\* fixed cursor, then the elements off the heap
ReadArray(ttype, bytes, pos, variable_data, endian) ==
    IF ttype = "F32" THEN Read(Panic("not yet implemented"), pos)
    ELSE Bind(Take(bytes, pos, 8), LAMBDA array_length :
         IF array_length.res.kind # "Ok" THEN array_length
         ELSE Bind(Take(bytes, array_length.pos, 8), LAMBDA variable_offset :
              IF variable_offset.res.kind # "Ok" THEN variable_offset
              ELSE Read(ReadElements(ttype, variable_data,
                            Index(variable_offset.res.val, Len(variable_data)),
                            Index(array_length.res.val, Len(variable_data)),
                            <<>>, endian),
                        variable_offset.pos)))

\* dat.rs:128-132  read_array for an array column, read_scalar otherwise
ReadColumn(column, bytes, pos, variable_data, endian) ==
    IF column.array THEN ReadArray(column.ttype, bytes, pos, variable_data, endian)
    ELSE ReadFn(column.ttype, bytes, pos, variable_data, endian)

\* dat.rs:125-136  read_with_schema from column i on; `offsets` records where
\* the fixed cursor stood when each column was read
RECURSIVE ReadColumns(_, _, _, _, _, _, _, _)
ReadColumns(bytes, pos, variable_data, columns, i, values, offsets, endian) ==
    IF i > Len(columns) THEN [res |-> Ok(values), offsets |-> offsets]
    ELSE Bind(ReadColumn(columns[i], bytes, pos, variable_data, endian), LAMBDA value :
         IF value.res.kind # "Ok"
         THEN [res |-> value.res, offsets |-> Append(offsets, pos)]
         ELSE ReadColumns(bytes, value.pos, variable_data, columns, i + 1,
                          Append(values, value.res.val), Append(offsets, pos), endian))

\* dat.rs:125-136  DatRow::read_with_schema on a fresh row cursor
ReadWithSchema(row, variable_data, columns, endian) ==
    ReadColumns(row, 0, variable_data, columns, 1, <<>>, <<>>, endian)

(***************************************************************************)
(* SpecDat: DatFile::new, DatRow::read_with_schema and                     *)
(* read_variable_string, each applied once to an input.                    *)
(***************************************************************************)
\* longest fixed area of the `dat` files drawn
MaxFixed == 4
\* longest schema drawn
MaxColumns == 2
\* longest string heap drawn
MaxHeap == 8

Sentinel == <<187, 187, 187, 187, 187, 187, 187, 187>>

Zeros(n) == [i \in 1..n |-> 0]

\* `dat` files with a row count, a fixed area and a sentinel, and two without
\* a sentinel
DatFiles ==
    {U32Bytes(row_count) \o fixed \o Sentinel \o heap :
        row_count \in 0..3, fixed \in SeqsUpTo({0, 1}, MaxFixed),
        heap \in {<<>>, <<65, 0, 0, 0, 0, 0>>}}
    \cup {<<1, 0, 0, 0, 5>>, <<1, 0>>}

\* rows: all zero; an array of one element at 8 (or the string at 1); the
\* row {bool = 1, i32 = -1}; a row of three bytes
Rows ==
    {Zeros(32),
     <<1>> \o Zeros(7) \o <<8>> \o Zeros(23),
     <<8>> \o Zeros(31),
     <<1, 255, 255, 255, 255>>,
     <<1, 0, 0>>}

\* the variable area of the rows: the sentinel, "A", a terminator
RowHeap == Sentinel \o <<65, 0, 0, 0, 0, 0, 0, 0>>

Columns == [array : BOOLEAN, ttype : ColumnTypes]

Endians == {"little", "big"}

InitDat ==
    /\ FsIdle
    /\ \/ \E data \in DatFiles, build \in Builds :
             pf_in = [fn |-> "DatFile::new", data |-> data, build |-> build]
       \/ \E row \in Rows, columns \in SeqsUpTo(Columns, MaxColumns), endian \in Endians :
             pf_in = [fn |-> "read_with_schema", row |-> row, variable_data |-> RowHeap,
                      columns |-> columns, endian |-> endian]
       \/ \E heap \in SeqsUpTo({0, 65}, MaxHeap), offset \in 0..2, endian \in Endians :
             pf_in = [fn |-> "read_variable_string", heap |-> heap, offset |-> offset,
                      endian |-> endian]
    /\ pf_out = NoResult

DatFileNewCall ==
    /\ pf_in.fn = "DatFile::new"
    /\ pf_out = NoResult
    /\ pf_out' = DatFileNew(pf_in.data, pf_in.build)
    /\ UNCHANGED <<pf_in, store, srcStatus, bundle_index, paths, file_map, dat_cache,
                   txt_cache, it_cache, it_recursive_cache, alive, last>>

ReadWithSchemaCall ==
    /\ pf_in.fn = "read_with_schema"
    /\ pf_out = NoResult
    /\ pf_out' = ReadWithSchema(pf_in.row, pf_in.variable_data, pf_in.columns,
                                pf_in.endian)
    /\ UNCHANGED <<pf_in, store, srcStatus, bundle_index, paths, file_map, dat_cache,
                   txt_cache, it_cache, it_recursive_cache, alive, last>>

ReadVariableStringCall ==
    /\ pf_in.fn = "read_variable_string"
    /\ pf_out = NoResult
    /\ pf_out' = ReadVariableString(pf_in.heap, pf_in.offset, pf_in.endian)
    /\ UNCHANGED <<pf_in, store, srcStatus, bundle_index, paths, file_map, dat_cache,
                   txt_cache, it_cache, it_recursive_cache, alive, last>>

NextDat ==
    \/ DatFileNewCall
    \/ ReadWithSchemaCall
    \/ ReadVariableStringCall

SpecDat == InitDat /\ [][NextDat]_vars

\* the offset of the first run of eight 0xBB bytes
BoundaryOf(data) ==
    CHOOSE i \in 0..Len(data) :
        /\ i + 8 <= Len(data) /\ SentinelAt(data, i)
        /\ \A j \in 0..(i - 1) : ~SentinelAt(data, j)

RECURSIVE ConcatRows(_, _)
ConcatRows(dat, n) ==
    IF n = 0 THEN <<>> ELSE ConcatRows(dat, n - 1) \o NthRow(dat, n - 1).val

\* C14: for every DatFile produced by DatFile::new, (boundary - 4) mod
\* row_count = 0 and row_length * row_count = boundary - 4: every nth_row(n),
\* n < row_count, lies inside the fixed area and the rows tile it.
C14_RowsTileFixedArea ==
    (pf_in.fn = "DatFile::new" /\ pf_out.kind = "Ok")
        => LET dat == pf_out.val
               boundary == BoundaryOf(pf_in.data)
           IN  /\ (boundary - 4) % dat.row_count = 0
               /\ dat.row_length * dat.row_count = boundary - 4
               /\ \A n \in 0..(dat.row_count - 1) : NthRow(dat, n).kind = "Ok"
               /\ ConcatRows(dat, dat.row_count) = Slice(pf_in.data, 4, boundary)

ReadDone == pf_in.fn = "read_with_schema" /\ pf_out # NoResult

\* the width of a column in the fixed area
Width(column) ==
    IF column.array THEN 16
    ELSE CASE column.ttype = "Bool" -> 1
           [] column.ttype \in {"I16", "U16"} -> 2
           [] column.ttype \in {"I32", "U32", "F32", "EnumRow"} -> 4
           [] column.ttype \in {"String", "Row"} -> 8
           [] column.ttype \in {"ForeignRow", "Array"} -> 16

RECURSIVE SumWidths(_, _)
SumWidths(columns, n) ==
    IF n = 0 THEN 0 ELSE SumWidths(columns, n - 1) + Width(columns[n])

\* the call ran off the row or off the heap
OutOfData ==
    /\ pf_out.res.kind = "Panic"
    /\ pf_out.res.err \in {"read unwrap: UnexpectedEof", "position unwrap",
                           "range start index out of range"}

\* C15: read_with_schema returns one value per column in declared order, each
\* decoded at the offset that is the sum of the widths of the columns before
\* it (bool 1, i16/u16 2, i32/u32/f32/enumrow 4, string/row 8, foreignrow 16,
\* any array column 16), unless the row or the heap run out of bytes.
C15_OneValuePerColumnAtWidthSums ==
    (ReadDone /\ ~OutOfData)
        => /\ pf_out.res.kind = "Ok"
           /\ Len(pf_out.res.val) = Len(pf_in.columns)
           /\ \A i \in 1..Len(pf_in.columns) :
                 pf_out.offsets[i] = SumWidths(pf_in.columns, i - 1)

\* C16: read_variable_string(heap, off) decodes exactly heap[off .. off+k), k
\* the smallest even number with heap[off+k .. off+k+4) all zero; a zero run at
\* an odd position relative to off does not end the string.
C16_StringEndsAtEvenZeroRun ==
    (pf_in.fn = "read_variable_string" /\ pf_out # NoResult)
        => LET heap == pf_in.heap
               off == pf_in.offset
               ks == {k \in 0..Len(heap) :
                        /\ k % 2 = 0 /\ off + k + 4 <= Len(heap)
                        /\ \A j \in 1..4 : heap[off + k + j] = 0}
           IN  ks # {} =>
                  LET k == CHOOSE x \in ks : \A y \in ks : x <= y
                  IN  pf_out = Ok(NativeUnits(Slice(heap, off, off + k), pf_in.endian))

\* a string whose last unit has a zero high byte: the zero run one byte
\* before the terminator was passed over
C16_Witness ==
    /\ pf_in.fn = "read_variable_string" /\ pf_out.kind = "Ok"
    /\ Len(pf_out.val) >= 2
    /\ LET k == 2 * Len(pf_out.val)
       IN  /\ pf_in.heap[pf_in.offset + k] = 0
           /\ pf_in.heap[pf_in.offset + k - 1] # 0
           /\ \A j \in 0..3 : pf_in.heap[pf_in.offset + k + j] = 0

\* C25: an enumrow column decodes its 4 little-endian bytes as an unsigned
\* index: the value (a usize, here its 8 little-endian bytes) is the raw
\* 32-bit pattern with upper bytes zero, also when the top bit is set.
C25_EnumRowIsUnsigned32 ==
    (ReadDone /\ pf_out.res.kind = "Ok")
        => \A i \in 1..Len(pf_in.columns) :
              pf_in.columns[i] = [array |-> FALSE, ttype |-> "EnumRow"]
                 => pf_out.res.val[i] =
                       DatValue("EnumRow",
                                Slice(pf_in.row, pf_out.offsets[i], pf_out.offsets[i] + 4)
                                    \o <<0, 0, 0, 0>>)

\* C30: DatFile::new accepts every byte sequence that holds a 4-byte row count
\* followed somewhere by the sentinel, the empty table included: construction
\* completes, and for a row count of 0 the DatFile has no row.
C30_EmptyTableIsAccepted ==
    (/\ pf_in.fn = "DatFile::new" /\ pf_out # NoResult
     /\ \E i \in 4..Len(pf_in.data) :
           i + 8 <= Len(pf_in.data) /\ SentinelAt(pf_in.data, i))
        => /\ pf_out.kind = "Ok"
           /\ pf_out.val.row_count = U32LE(pf_in.data, 0)

UntypedArray == [array |-> TRUE, ttype |-> "Array"]

\* C17: an untyped array column (array = true, type array) is decoded by
\* reading two u64s (length, offset) off the fixed cursor and surfaced as one
\* UnknownArray{offset, length}; nothing is read from the heap, whatever
\* length and offset are.
C17_UntypedArrayIsUnknownArray ==
    (/\ ReadDone
     /\ \A i \in 1..Len(pf_in.columns) : pf_in.columns[i] = UntypedArray
     /\ Len(pf_in.row) >= 16 * Len(pf_in.columns))
        => pf_out.res =
              Ok([i \in 1..Len(pf_in.columns) |->
                     DatValue("UnknownArray",
                              <<Slice(pf_in.row, 16 * (i - 1) + 8, 16 * i),
                                Slice(pf_in.row, 16 * (i - 1), 16 * (i - 1) + 8)>>)])

(***************************************************************************)
(* The translation decoder (src/src/translation.rs).  A line is a sequence *)
(* of tokens: a keyword, a word, a digit, a blank, a quote or a sign.      *)
(***************************************************************************)
Quote == "\""
Ws == {" ", "\t"}
Digits == {"0", "1", "2"}
Signs == {"-", "|", "#", "!"}

\* \w+ : a keyword, a word or a digit
Word(tok) == tok \notin Ws \cup Signs \cup {Quote, "%", "+"}

RECURSIVE TrimStart(_)
TrimStart(tokens) ==
    IF tokens # <<>> /\ Head(tokens) \in Ws THEN TrimStart(Tail(tokens)) ELSE tokens

RECURSIVE TrimEnd(_)
TrimEnd(tokens) ==
    IF tokens # <<>> /\ tokens[Len(tokens)] \in Ws
    THEN TrimEnd(SubSeq(tokens, 1, Len(tokens) - 1)) ELSE tokens

\* translation.rs:45  line.trim().is_empty()
IsBlank(line) == TrimStart(line) = <<>>

\* the length of the leading run of digits
RECURSIVE LeadDigits(_)
LeadDigits(tokens) ==
    IF tokens # <<>> /\ Head(tokens) \in Digits THEN 1 + LeadDigits(Tail(tokens)) ELSE 0

DigitValue(d) == CASE d = "0" -> 0 [] d = "1" -> 1 [] d = "2" -> 2

\* translation.rs:79  str::parse of a run of digits
RECURSIVE ParseInt(_, _)
ParseInt(tokens, acc) ==
    IF tokens = <<>> THEN acc
    ELSE ParseInt(Tail(tokens), 10 * acc + DigitValue(Head(tokens)))

RECURSIVE Concat(_)
Concat(tokens) == IF tokens = <<>> THEN "" ELSE Head(tokens) \o Concat(Tail(tokens))

\* translation.rs:12-13  STATS_REGEX  ^[\s]*(count: [0-9]+) (stat_ids: .*)$
StatsCaptures(line) ==
    LET t == TrimStart(line)
        n == LeadDigits(t)
    IN  IF n >= 1 /\ Len(t) > n /\ t[n + 1] = " "
        THEN Some([stat_id_count |-> SubSeq(t, 1, n),
                   stat_ids |-> SubSeq(t, n + 2, Len(t))])
        ELSE None

\* translation.rs:16-17  ROW_COUNT_REGEX  ^[\s]*(rows: [0-9]+)[\s]*$
RowCountCaptures(line) ==
    LET t == TrimEnd(TrimStart(line))
    IN  IF t # <<>> /\ LeadDigits(t) = Len(t) THEN Some(t) ELSE None

\* translation.rs:14-15  LANG_REGEX  ^[\s]*lang "(language: [\w ]+)"[\s]*$
LangCaptures(line) ==
    LET t == TrimEnd(TrimStart(line))
    IN  IF /\ Len(t) >= 5
           /\ t[1] = "lang" /\ t[2] = " " /\ t[3] = Quote /\ t[Len(t)] = Quote
           /\ \A i \in 4..(Len(t) - 1) : Word(t[i]) \/ t[i] = " "
        THEN Some(Concat(SubSeq(t, 4, Len(t) - 1)))
        ELSE None

\* translation.rs:9-11  DESCRIPTION_REGEX: the alternative that matched, if any
DescriptionCaptures(line) ==
    LET n == Len(line)
        rest == IF n = 0 THEN <<>> ELSE TrimEnd(TrimStart(Tail(line)))
    IN  IF n >= 2 /\ line[1] = Quote /\ line[n] = Quote THEN Some("header")
        ELSE IF /\ n >= 4 /\ line[1] = "include" /\ line[2] = " " /\ line[3] = Quote
                /\ \E i \in 4..n : line[i] = Quote
             THEN Some("include")
        ELSE IF /\ n >= 1 /\ line[1] = "no_description"
                /\ \A i \in 1..Len(rest) : Word(rest[i]) \/ rest[i] \in {"+", "%"}
             THEN Some("no_description")
        ELSE IF /\ n >= 1 /\ line[1] = "description"
                /\ \A i \in 1..Len(rest) : rest[i] \notin Ws
             THEN Some("description")
        ELSE None

\* translation.rs:6-8  ROW_REGEX
\* ^[\s]*(minmax: ([0-9\-\|#!]+[ \t]+)+)"(description)"(quantifier)[ \t]*$
RowCaptures(line) ==
    LET t == TrimStart(line)
        quotes == {i \in 1..Len(t) : t[i] = Quote}
    IN  IF quotes = {} THEN None
        ELSE LET q1 == CHOOSE i \in quotes : \A j \in quotes : i <= j
                 q2 == CHOOSE i \in quotes : \A j \in quotes : j <= i
             IN  IF /\ q1 >= 3 /\ q2 > q1
                    /\ t[1] \in Digits \cup Signs /\ t[q1 - 1] \in Ws
                    /\ \A i \in 1..(q1 - 1) : t[i] \in Digits \cup Signs \cup Ws
                    /\ \A i \in (q2 + 1)..Len(t) : Word(t[i]) \/ t[i] \in Ws \cup {"%"}
                 THEN Some([condition |-> Concat(SubSeq(t, 1, q1 - 1)),
                            format_string |-> Concat(SubSeq(t, q1 + 1, q2 - 1)),
                            modifiers |-> Concat(SubSeq(t, q2 + 1, Len(t)))])
                 ELSE None

\* translation.rs:118-122  StatKey
Single(id) == [tag |-> "Single", ids |-> <<id>>]
Multiple(ids) == [tag |-> "Multiple", ids |-> ids]

\* translation.rs:103-107  map.entry(lang).or_default().entry(key).or_default().push(row)
MapPush(map, lang, key, row) ==
    LET inner == IF lang \in DOMAIN map THEN map[lang] ELSE <<>>
        rows == IF key \in DOMAIN inner THEN inner[key] ELSE <<>>
        pushed == [k \in DOMAIN inner \cup {key} |->
                      IF k = key THEN Append(rows, row) ELSE inner[k]]
    IN  [l \in DOMAIN map \cup {lang} |-> IF l = lang THEN pushed ELSE map[l]]

\* translation.rs:39-43  the decoder's variables before the first line
ParseStart ==
    [state |-> "Description", lang |-> "English", row_count |-> 0,
     stats_ids |-> Single(""), map |-> <<>>, panicked |-> ""]

UnwrapNone(d) == [d EXCEPT !.panicked = "Option::unwrap on None"]

\* translation.rs:49-55  State::Description
DescriptionArm(d, line) ==
    IF DescriptionCaptures(line) = Some("description")
    THEN [d EXCEPT !.state = "Stats"] ELSE d

\* translation.rs:65-69  one id is Single, any other number of ids Multiple
KeyOf(new_stats_ids) ==
    IF Len(new_stats_ids) = 1 THEN Single(new_stats_ids[1])
    ELSE Multiple(new_stats_ids)

\* a Stats arm that keeps the language of the block before
StatsArmKeepsLang(d, line) ==
    IF StatsCaptures(line) = None THEN UnwrapNone(d)
    ELSE [d EXCEPT !.stats_ids = KeyOf(SplitOn(StatsCaptures(line)[1].stat_ids, " ", "")),
                   !.state = "Lang"]

\* translation.rs:56-72  State::Stats
StatsArm(d, line) ==
    IF StatsCaptures(line) = None THEN UnwrapNone(d)
    ELSE [d EXCEPT !.stats_ids = KeyOf(SplitOn(StatsCaptures(line)[1].stat_ids, " ", "")),
                   !.state = "Lang",
                   !.lang = "English"]

\* translation.rs:73-86  State::Lang
LangArm(d, line) ==
    IF LangCaptures(line) # None
    THEN [d EXCEPT !.lang = LangCaptures(line)[1], !.state = "RowCount"]
    ELSE IF RowCountCaptures(line) # None
    THEN [d EXCEPT !.row_count = ParseInt(RowCountCaptures(line)[1], 0),
                   !.state = "Rows"]
    ELSE IF DescriptionCaptures(line) = Some("description")
    THEN [d EXCEPT !.state = "Stats"]
    ELSE d

\* translation.rs:87-91  State::RowCount
RowCountArm(d, line) ==
    IF RowCountCaptures(line) = None THEN UnwrapNone(d)
    ELSE [d EXCEPT !.row_count = ParseInt(RowCountCaptures(line)[1], 0),
                   !.state = "Rows"]

\* the block ends one row early
RowsNextStateEarly(row_count) == IF row_count <= 1 THEN "Lang" ELSE "Rows"

\* translation.rs:108-110  back to Lang when the count has reached zero
RowsNextState(row_count) == IF row_count = 0 THEN "Lang" ELSE "Rows"

\* translation.rs:92-111  State::Rows
RowsArm(d, line) ==
    IF RowCaptures(line) = None
    THEN UnwrapNone([d EXCEPT !.row_count = d.row_count - 1])
    ELSE [d EXCEPT !.row_count = d.row_count - 1,
                   !.map = MapPush(d.map, d.lang, d.stats_ids, RowCaptures(line)[1]),
                   !.state = RowsNextState(d.row_count - 1)]

\* translation.rs:44-112  one turn of the loop over the lines
ParseLine(d, line) ==
    IF IsBlank(line) THEN d
    ELSE CASE d.state = "Description" -> DescriptionArm(d, line)
           [] d.state = "Stats" -> StatsArm(d, line)
           [] d.state = "Lang" -> LangArm(d, line)
           [] d.state = "RowCount" -> RowCountArm(d, line)
           [] d.state = "Rows" -> RowsArm(d, line)

(***************************************************************************)
(* SpecTranslation: TranslationFile::parse, one line of the file per step. *)
(* pf_out holds the decoder's variables; pf_in the line just read, the     *)
(* state it was read in, and the declared and consumed rows of the block.  *)
(***************************************************************************)
\* the longest file drawn, in lines
MaxLines == 9

BlankLines == {<<>>, <<" ">>}
DescriptionLines == {<<"description">>, <<"description", " ", "a">>}
StatsLines ==
    {<<"1", " ", "a">>, <<"2", " ", "a", " ", "b">>, <<"1", " ", "a", " ", "b">>,
     <<"2", " ", "a">>}
LangLines == {<<"lang", " ", Quote, "French", Quote>>}
CountLines == {<<"0">>, <<"1">>, <<"2">>}
RowLines == {<<"1", " ", Quote, "a", Quote>>, <<"#", "|", " ", Quote, "b", Quote>>}

\* the language a lang line names
LangName(line) == line[4]

Lines ==
    BlankLines \cup DescriptionLines \cup StatsLines \cup LangLines \cup CountLines
        \cup RowLines \cup {<<"no_description", " ", "a">>}

InitTranslation ==
    /\ FsIdle
    /\ pf_in = [fn |-> "TranslationFile::parse", lines |-> 0, line |-> <<>>,
                prev_state |-> "Description", declared |-> 0, consumed |-> 0,
                block_lang |-> "English"]
    /\ pf_out = ParseStart

\* the next line of the file goes through the loop body
Feed(line) ==
    /\ pf_in.fn = "TranslationFile::parse"
    /\ pf_in.lines < MaxLines
    /\ pf_out.panicked = ""
    /\ \E d \in {ParseLine(pf_out, line)} :
          /\ pf_out' = d
          /\ pf_in' =
                [pf_in EXCEPT
                    !.lines = @ + 1,
                    !.line = line,
                    !.prev_state = pf_out.state,
                    !.block_lang = IF d.panicked # "" \/ IsBlank(line) THEN @
                                   ELSE IF pf_out.state = "Stats" THEN "English"
                                   ELSE IF pf_out.state = "Lang" /\ line \in LangLines
                                   THEN LangName(line)
                                   ELSE @,
                    !.declared = IF d.panicked = "" /\ d.state = "Rows"
                                    /\ pf_out.state # "Rows"
                                 THEN d.row_count ELSE @,
                    !.consumed = IF d.panicked # "" \/ IsBlank(line) THEN @
                                 ELSE IF pf_out.state = "Rows" THEN @ + 1
                                 ELSE IF d.state = "Rows" THEN 0 ELSE @]
    /\ UNCHANGED <<store, srcStatus, bundle_index, paths, file_map, dat_cache,
                   txt_cache, it_cache, it_recursive_cache, alive, last>>

SkipBlank == \E line \in Lines : IsBlank(line) /\ Feed(line)

DescriptionLine ==
    \E line \in Lines : ~IsBlank(line) /\ pf_out.state = "Description" /\ Feed(line)

StatsLine == \E line \in Lines : ~IsBlank(line) /\ pf_out.state = "Stats" /\ Feed(line)

LangLine == \E line \in Lines : ~IsBlank(line) /\ pf_out.state = "Lang" /\ Feed(line)

RowCountLine ==
    \E line \in Lines : ~IsBlank(line) /\ pf_out.state = "RowCount" /\ Feed(line)

RowsLine == \E line \in Lines : ~IsBlank(line) /\ pf_out.state = "Rows" /\ Feed(line)

NextTranslation ==
    \/ SkipBlank
    \/ DescriptionLine
    \/ StatsLine
    \/ LangLine
    \/ RowCountLine
    \/ RowsLine

SpecTranslation == InitTranslation /\ [][NextTranslation]_vars

Parsing == pf_in.fn = "TranslationFile::parse"

\* the state the claimed transitions give for a non-blank line
ClaimedNextState(state, line, consumed, declared) ==
    CASE state = "Description" ->
            IF line \in DescriptionLines THEN "Stats" ELSE "Description"
      [] state = "Stats" -> "Lang"
      [] state = "Lang" ->
            IF line \in LangLines THEN "RowCount"
            ELSE IF line \in CountLines THEN "Rows"
            ELSE IF line \in DescriptionLines THEN "Stats"
            ELSE "Lang"
      [] state = "RowCount" -> "Rows"
      [] state = "Rows" -> IF consumed = declared THEN "Lang" ELSE "Rows"

\* C18: every step of the decoder that does not panic is one of the claimed
\* transitions: Description->Stats on a description line, Stats->Lang,
\* Lang->RowCount on a lang line, Lang->Rows on an integer line, Lang->Stats
\* on a description line, RowCount->Rows, Rows->Lang exactly when the
\* declared number of row lines has been consumed; a blank line changes no
\* variable of the decoder.
C18_OnlyClaimedTransitions ==
    [][(Parsing /\ pf_out'.panicked = "")
          => IF pf_in'.line \in BlankLines THEN pf_out' = pf_out
             ELSE pf_out'.state =
                     ClaimedNextState(pf_out.state, pf_in'.line,
                                      pf_in'.consumed, pf_in'.declared)]_vars

\* a block of two declared rows has just been closed by its second row
C18_Witness ==
    /\ Parsing /\ pf_out.panicked = ""
    /\ pf_in.prev_state = "Rows" /\ pf_out.state = "Lang"
    /\ pf_in.declared = 2 /\ pf_in.consumed = 2
    /\ pf_in.line \in RowLines

\* the number of rows registered under a language and a key
RowsAt(map, lang, key) ==
    IF lang \in DOMAIN map /\ key \in DOMAIN map[lang] THEN Len(map[lang][key]) ELSE 0

\* C24: every block starts in language "English": a row is registered under
\* the language of the most recent lang line of its own block, and under
\* "English" when no lang line came since the block's Stats line, whatever
\* the language of the block before; nothing else in the map changes.
C24_RowsUnderBlockLanguage ==
    [][(/\ Parsing /\ pf_out.state = "Rows" /\ pf_out'.panicked = ""
        /\ pf_in'.line \notin BlankLines)
          => /\ RowsAt(pf_out'.map, pf_in.block_lang, pf_out.stats_ids)
                   = RowsAt(pf_out.map, pf_in.block_lang, pf_out.stats_ids) + 1
             /\ \A l \in DOMAIN pf_out'.map : \A k \in DOMAIN pf_out'.map[l] :
                    (l # pf_in.block_lang \/ k # pf_out.stats_ids)
                       => RowsAt(pf_out'.map, l, k) = RowsAt(pf_out.map, l, k)]_vars

\* a row registered under "English" in a block that follows a block with rows
\* under "French"
C24_Witness ==
    /\ Parsing /\ pf_out.panicked = ""
    /\ pf_in.prev_state = "Rows" /\ pf_in.line \in RowLines
    /\ pf_in.block_lang = "English"
    /\ "French" \in DOMAIN pf_out.map /\ "English" \in DOMAIN pf_out.map

\* C19: after a Stats line `count id1 id2 ...`, stats_ids is Single(id1) if
\* the declared count is 1 and Multiple([ids]) otherwise.
C19_KeyFollowsDeclaredCount ==
    (/\ Parsing /\ pf_out.panicked = ""
     /\ pf_in.prev_state = "Stats" /\ pf_in.line \notin BlankLines)
        => LET count == ParseInt(StatsCaptures(pf_in.line)[1].stat_id_count, 0)
               ids == SplitOn(StatsCaptures(pf_in.line)[1].stat_ids, " ", "")
           IN  pf_out.stats_ids = IF count = 1 THEN Single(ids[1]) ELSE Multiple(ids)

\* C20: a count line declaring 0 rows leaves the decoder in state Lang for the
\* next non-blank line.
C20_ZeroRowsBackToLang ==
    (/\ Parsing /\ pf_out.panicked = ""
     /\ pf_in.prev_state \in {"Lang", "RowCount"}
     /\ pf_in.line = <<"0">>)
        => pf_out.state = "Lang"

(***************************************************************************)
(* Cache stability of the typed helpers (Spec).                            *)
(***************************************************************************)
CachesNext ==
    [dat_cache |-> dat_cache', txt_cache |-> txt_cache', it_cache |-> it_cache',
     it_recursive_cache |-> it_recursive_cache']

CacheIn(c, op) ==
    CASE op = "read_dat" -> c.dat_cache
      [] op = "read_txt" -> c.txt_cache
      [] op = "read_it" -> c.it_cache
      [] op = "read_it_recursive" -> c.it_recursive_cache

\* the caches answer the helper for the path without the source adapter: the
\* helper's own cache holds the path, or, for read_it_recursive, it_cache
\* holds it as a file that extends "nothing"
Served(c, op, path) ==
    \/ path \in DOMAIN CacheIn(c, op)
    \/ /\ op = "read_it_recursive"
       /\ path \in DOMAIN c.it_cache
       /\ c.it_cache[path].extends = "nothing"

ServedValue(c, op, path) ==
    IF path \in DOMAIN CacheIn(c, op) THEN CacheIn(c, op)[path] ELSE c.it_cache[path]

HelperPaths == DOMAIN Murmur64a \cup {"nope"}

\* C28: once a typed helper X has succeeded on a path, every later X on that
\* path returns an equal value without a call to the source adapter, whatever
\* calls come between; no operation removes or replaces a cache entry.  As
\* steps: a success leaves the path served by the caches with the returned
\* value; a served path stays served with the same value; a call on a served
\* path returns that value and asks the source adapter for nothing; every
\* cache entry persists.
C28_SuccessIsServedForever ==
    [][/\ \A op \in Helpers : \A path \in DOMAIN CacheIn(Caches, op) :
             /\ path \in DOMAIN CacheIn(CachesNext, op)
             /\ CacheIn(CachesNext, op)[path] = CacheIn(Caches, op)[path]
       /\ \A op \in Helpers : \A path \in HelperPaths :
             Served(Caches, op, path)
                => /\ Served(CachesNext, op, path)
                   /\ ServedValue(CachesNext, op, path) = ServedValue(Caches, op, path)
       /\ (last' # NoCall /\ last'.op \in Helpers)
             => /\ Served(Caches, last'.op, last'.path)
                     => /\ last'.res = Ok(ServedValue(Caches, last'.op, last'.path))
                        /\ last'.calls = <<>>
                /\ last'.res.kind = "Ok"
                     => /\ Served(CachesNext, last'.op, last'.path)
                        /\ ServedValue(CachesNext, last'.op, last'.path) = last'.res.val
      ]_vars

\* read_it_recursive answered from its cache while the source adapter does
\* not answer, on a PoeFS whose other caches hold entries too
C28_Witness ==
    /\ last # NoCall /\ last.op = "read_it_recursive" /\ last.hit
    /\ last.res.kind = "Ok" /\ last.calls = <<>>
    /\ srcStatus # "ok"
    /\ DOMAIN dat_cache # {} /\ DOMAIN txt_cache # {}

\* C29: read_it and read_it_recursive never insert into txt_cache and never
\* change an it_cache entry; it_cache holds only unmerged single-file parses
\* and read_it returns that parse, also after read_it_recursive has stored a
\* merged file for the path in it_recursive_cache.
C29_RecursiveLeavesItCacheUnmerged ==
    [][/\ (last' # NoCall /\ last'.op \in {"read_it", "read_it_recursive"})
             => /\ txt_cache' = txt_cache
                /\ \A path \in DOMAIN it_cache :
                      /\ path \in DOMAIN it_cache'
                      /\ it_cache'[path] = it_cache[path]
       /\ (last' # NoCall /\ last'.op = "read_it" /\ last'.res.kind = "Ok")
             => last'.res = TrueIt(last'.path)
       /\ \A path \in DOMAIN it_cache' : Ok(it_cache'[path]) = TrueIt(path)
      ]_vars

\* read_it answered with the unmerged parse of a path for which
\* it_recursive_cache holds a different, merged file, with txt_cache holding
\* a text
C29_Witness ==
    /\ last # NoCall /\ last.op = "read_it" /\ last.res.kind = "Ok"
    /\ last.path \in DOMAIN it_recursive_cache
    /\ it_recursive_cache[last.path] # last.res.val
    /\ last.res = TrueIt(last.path)
    /\ DOMAIN txt_cache # {}

(***************************************************************************)
(* SpecIndex: PoeFS::new over the index bundles a source may serve, then   *)
(* get_file.  BundleIndex::parse copies every field of the records as it   *)
(* is read (bundle_index.rs:20-52, 86-99), so an index is drawn as its     *)
(* parsed records and the paths its path_rep payloads expand to.           *)
(***************************************************************************)
\* the most file records of an index drawn
MaxFiles == 2

\* bundle_index.rs:86-99  FileRecord::parse: any hash and any u32 bundle index
FileRecords ==
    [hash : {101, 106}, bundle_index : 0..2, file_offset : {0}, file_size : {4}]

BundleLists == {<<[name |-> "x"]>>, <<[name |-> "x"], [name |-> "z"]>>}

PathSets == SUBSET {"a.it", "z1", "ghost"}

\* poefs/mod.rs:40-50  paths: every expanded path with its murmur64a hash
PathsOf(names) == [p \in names |-> Murmur64a[p]]

\* poefs/mod.rs:33-67  PoeFS::new over a parsed index
InitIndex ==
    /\ store = WorldStore(3, 1, 1)
    /\ srcStatus = "ok"
    /\ \E bundles \in BundleLists, files \in SeqsUpTo(FileRecords, MaxFiles),
          names \in PathSets :
          /\ bundle_index = [bundles |-> bundles, files |-> files]
          /\ paths = PathsOf(names)
          /\ file_map = FileMapOf(files)
    /\ dat_cache = <<>>
    /\ txt_cache = <<>>
    /\ it_cache = <<>>
    /\ it_recursive_cache = <<>>
    /\ alive = TRUE
    /\ last = NoCall
    /\ PfIdle

NextIndex ==
    \/ GetFileCall
    \/ SourceChange

SpecIndex == InitIndex /\ [][NextIndex]_vars

\* C21: after PoeFS::new, for every path p, paths[p] is a key of file_map,
\* file_map[paths[p]] < files.len() and files[file_map[paths[p]]].bundle_index
\* < bundles.len(); get_file never indexes files or bundles out of range.
C21_IndexIsClosed ==
    /\ (last # NoCall /\ last.op = "get_file")
          => last.res # Panic("index out of bounds")
    /\ last # NoCall =>
          \A p \in DOMAIN paths :
             /\ paths[p] \in DOMAIN file_map
             /\ file_map[paths[p]] < Len(bundle_index.files)
             /\ bundle_index.files[file_map[paths[p]] + 1].bundle_index
                   < Len(bundle_index.bundles)

(***************************************************************************)
(* SpecLocal: one LocalSource over a GGPK file and a sequence of get_file  *)
(* calls on it.  pf_out holds the last result and the reader's cursor;     *)
(* pf_in the file, the number of calls, the last path and the cursor the   *)
(* last call started from.  The files include records that refer to        *)
(* themselves or to a record before them.                                  *)
(***************************************************************************)
\* the most get_file calls made on one source
MaxCalls == 3

\* a get_file that reads the bundle where the reader stood before the call
LocalGetFileAtStale(file, cursor, path) ==
    LET vec == SplitOn(path, "/", "") IN
    Bind(FindFileHelper(file, file[0], cursor, vec, 1), LAMBDA found :
        IF found.res.kind # "Ok" THEN found
        ELSE IF found.res.val = None
             THEN Found(Panic("Option::unwrap on None"), found.cursor)
        ELSE Found(ReadBundleAt(file[cursor].body), found.cursor))

\* local.rs:78-88  LocalSource::get_file with the reader at cursor: the
\* result and the cursor the call leaves
LocalGetFileAt(file, cursor, path) ==
    LET vec == SplitOn(path, "/", "") IN
    Bind(FindFileHelper(file, file[0], cursor, vec, 1), LAMBDA found :
        IF found.res.kind # "Ok" THEN found
        ELSE IF found.res.val = None
             THEN Found(Panic("Option::unwrap on None"), found.cursor)
        ELSE Found(ReadBundleAt(file[found.cursor].body), found.cursor))

\* trees, a root that lists itself, a PDIR that lists itself, a PDIR that
\* lists the root, and a GGPK record below the root
LocalFiles ==
    {[o \in 0..2 |-> IF o = 0 THEN Ggpk(e) ELSE IF o = 1 THEN r1 ELSE r2] :
        e \in {<<1, 2>>, <<0, 1>>, <<1, 0>>},
        r1 \in {Pdir("", <<2>>), Pdir("", <<1, 2>>), Pdir("", <<0>>), Pdir("a", <<2>>),
                Ggpk(<<2, 2>>), File("a", BodyOf("a"))},
        r2 \in {File("a", BodyOf("a")), File("b", BodyOf("b")), Pdir("a", <<1>>), Free}}

\* local.rs:20-27  LocalSource::new: the root is parsed, the reader is behind
\* its header
InitLocal ==
    /\ FsIdle
    /\ \E file \in LocalFiles :
          pf_in = [fn |-> "LocalSource", file |-> file, calls |-> 0, path |-> <<>>,
                   before |-> 0]
    /\ pf_out = Found(NoResult, 0)

\* one get_file call; an unwrap that panics unwinds and leaves the source
\* usable, a stack overflow ends the process
LocalGetFileStep ==
    /\ pf_in.fn = "LocalSource"
    /\ pf_in.calls < MaxCalls
    /\ pf_out.res # Panic("stack overflow")
    /\ \E path \in RequestPaths :
          /\ pf_out' = LocalGetFileAt(pf_in.file, pf_out.cursor, path)
          /\ pf_in' = [pf_in EXCEPT !.calls = @ + 1, !.path = path,
                                    !.before = pf_out.cursor]
    /\ UNCHANGED <<store, srcStatus, bundle_index, paths, file_map, dat_cache,
                   txt_cache, it_cache, it_recursive_cache, alive, last>>

NextLocal == LocalGetFileStep

SpecLocal == InitLocal /\ [][NextLocal]_vars

LocalCalled == pf_in.fn = "LocalSource" /\ pf_in.calls >= 1

\* C23: the result of get_file(p) depends only on p and the file, never on
\* the cursor earlier calls left: it is the result of the same call on a
\* source just opened.
C23_ResultIgnoresCursor ==
    LocalCalled => pf_out.res = LocalGetFileAt(pf_in.file, 0, pf_in.path).res

\* a bundle read by a call that started from the cursor of an earlier call,
\* behind another record than the one it read
C23_Witness ==
    /\ LocalCalled /\ pf_in.calls >= 2
    /\ pf_out.res.kind = "Ok"
    /\ pf_in.before \notin {0, pf_out.cursor}

\* C27: find terminates on every file whose records parse, also when child
\* offsets form a cycle: the descent never outgrows the stack, its depth
\* being bounded by the number of path components.
C27_DescentIsBounded ==
    LocalCalled => pf_out.res # Panic("stack overflow")

(***************************************************************************)
(* SpecChain: an ITFile right after ITFile::parse, then merged any number  *)
(* of times with other parsed files, as self or as other of the merge.     *)
(***************************************************************************)
\* the most merges applied to one file
MaxMerges == 2

InitChain ==
    /\ FsIdle
    /\ pf_in = [fn |-> "ITFile::parse", merges |-> 0]
    /\ \E file \in ParsedFiles : pf_out = Ok(file)

\* it.rs:81-106  self.merge(other)
MergeAsSelf ==
    /\ pf_in.fn = "ITFile::parse"
    /\ pf_in.merges < MaxMerges
    /\ \E other \in ParsedFiles : pf_out' = Ok(ITFileMerge(pf_out.val, other))
    /\ pf_in' = [pf_in EXCEPT !.merges = @ + 1]
    /\ UNCHANGED <<store, srcStatus, bundle_index, paths, file_map, dat_cache,
                   txt_cache, it_cache, it_recursive_cache, alive, last>>

\* it.rs:81-106  other.merge(self)
MergeAsOther ==
    /\ pf_in.fn = "ITFile::parse"
    /\ pf_in.merges < MaxMerges
    /\ \E child \in ParsedFiles : pf_out' = Ok(ITFileMerge(child, pf_out.val))
    /\ pf_in' = [pf_in EXCEPT !.merges = @ + 1]
    /\ UNCHANGED <<store, srcStatus, bundle_index, paths, file_map, dat_cache,
                   txt_cache, it_cache, it_recursive_cache, alive, last>>

NextChain ==
    \/ MergeAsSelf
    \/ MergeAsOther

SpecChain == InitChain /\ [][NextChain]_vars

\* C26: in every ITFile reached by parse and any number of merges, a value is
\* a Set if and only if it is stored at section Base, key tag; right after
\* parse that set has exactly one element.
C26_SetOnlyAtBaseTag ==
    pf_in.fn = "ITFile::parse" =>
        \A sec \in DOMAIN pf_out.val.sections :
            \A key \in DOMAIN pf_out.val.sections[sec] :
                LET v == pf_out.val.sections[sec][key] IN
                /\ (v.t = "Set") <=> (sec = "Base" /\ key = "tag")
                /\ (v.t = "Set" /\ pf_in.merges = 0) => Cardinality(v.set) = 1

\* after two merges: a Base.tag of two elements beside a scalar Stats.tag and
\* a scalar Base.hp
C26_Witness ==
    /\ pf_in.fn = "ITFile::parse" /\ pf_in.merges = 2
    /\ HasKey(pf_out.val, "Base", "tag") /\ HasKey(pf_out.val, "Stats", "tag")
    /\ HasKey(pf_out.val, "Base", "hp")
    /\ Cardinality(pf_out.val.sections["Base"]["tag"].set) = 2
    /\ pf_out.val.sections["Stats"]["tag"].t = "String"
    /\ pf_out.val.sections["Base"]["hp"].t = "Number"

====
